---- MODULE Spec2Model ----
(***************************************************************************)
(* Usage accounting and maintenance subsystem of the link shortener:      *)
(* LinkMetrics (DashMap of atomic counters behind an ArcSwap), the batch  *)
(* flusher process_batch_task / flush_to_db, and the periodic Scheduler.  *)
(***************************************************************************)
EXTENDS Integers, Sequences, FiniteSets, TLC

\* ---------------------------------------------------------------- bounds
NProcs == 2          \* concurrent request handlers calling record_hit
MaxCalls == 2        \* record_hit calls made in one behaviour
MaxSwaps == 2        \* flush cycles (swap_map calls) in one behaviour
MaxLiveSwaps == 1    \* flush cycles in one behaviour of FairSpec
MaxTime == 1         \* the wall clock runs over 0..MaxTime seconds
MaxLinkId == 2       \* link ids 1..MaxLinkId
MaxCollId == 2       \* collection ids 1..MaxCollId
NShards == 2         \* shards of one DashMap
MaxSpurious == 1     \* spurious compare_exchange_weak failures per call
DayLen == 1          \* seconds per day, scaled down
CHUNK_SIZE == 2      \* link_metrics.rs:93 has 500, scaled down

NJobs == 2           \* jobs spawned on one Scheduler
MaxPeriods == 2      \* interval periods that elapse per job
MaxTimeout == 2      \* shutdown is called with timeout_s in 0..MaxTimeout
MaxDayChanges == 3   \* days the server date advances in one behaviour
MaxOkRuns == 2       \* ticks that return Ok for one server date
StartDay == 19780    \* the server date at the start, 2024-02-27 (days since 1970-01-01)

NAliases == 2        \* aliases 1..NAliases looked up through the cache
NCallers == 3        \* concurrent callers of fetch_link
MaxGets == 4         \* cache lookups made in one behaviour
MaxDbChanges == 1    \* inserts or deletes of a link while lookups run
MaxHits == 2         \* a durable write carries hits in 1..MaxHits
MaxStamp == 2        \* and last_access in 0..MaxStamp
MaxBase == 2         \* rows in the durable table before the two writes
MaxRows == 5         \* links_main holds the ids 1..MaxRows
BATCH_SIZE == 2      \* link_cleanup.rs:7 has 5_000, scaled down
MaxSeen == 1         \* last_seen updates of a flush while link_cleanup_task runs
EXPIRY_DAYS == 30    \* api/handlers/core.rs:19

TTI_DAYS == 30       \* link_cleanup.rs:6
MaxUnused == 2       \* CleanupUnusedLinksTask.days_unused in 0..MaxUnused
DaySecs == 2         \* cleanup_unused_links.rs:55 has 24 * 60 * 60, scaled down
MaxNow == 4          \* SystemTime::now() in 0..MaxNow seconds of the epoch
MaxLinks == 2        \* the table links holds the ids 1..MaxLinks
MaxExecs == 2        \* runs of CleanupUnusedLinksTask.execute in one behaviour
MAX_RETRIES == 10    \* core.rs:40
MaxInsertErrs == 2   \* inserts of one shorten_url call that the database fails
MaxTaken == 1        \* aliases other requests insert during one shorten_url call
MaxFlushes == 2      \* chunk transactions in one behaviour
MaxEntries == 3      \* entries of a table drained by flush_metrics
MaxCycles == 2       \* cycles of flush_metrics in one behaviour
MaxXDay == 31        \* days a link is followed through fetch_link
MaxLogs == 2         \* calls of Metrics::log in one behaviour

Procs == 1..NProcs
Jobs == 1..NJobs
Aliases == 1..NAliases
Callers == 1..NCallers
NoDay == 0 - 1           \* no date yet
Tables == 0..MaxSwaps
Shards == 0..(NShards - 1)
NoProc == NProcs + 1     \* no handler: a free write lock
NoShard == NShards       \* no shard: the iterator holds no read lock
NoKey == [kind |-> "None", id |-> 0]

\* enum EntityKey { Link(i64), Collection(i64) }
EntityKey ==
    [kind : {"Link"}, id : 1..MaxLinkId] \cup [kind : {"Collection"}, id : 1..MaxCollId]

\* DashMap::determine_shard: the shard is a function of the key's hash
ShardOf(k) == (k.id + (IF k.kind = "Collection" THEN 1 ELSE 0)) % NShards

\* LinkMetricsData::new(last_access_s): hits starts at 1
LinkMetricsData_new(last) == [hits |-> 1, last_access_s |-> last]

\* CURRENT_DATE of the database server for wall-clock second t
DayOf(t) == t \div DayLen

\* OffsetDateTime::from_unix_timestamp: seconds to a date-time, an error
\* outside the years -9999..9999 (days -4371587..2932896 of the epoch)
from_unix_timestamp(s) ==
    IF DayOf(s) >= -4371587 /\ DayOf(s) <= 2932896
    THEN [ok |-> TRUE, value |-> s]
    ELSE [ok |-> FALSE, value |-> 0]

EmptyCols == [id |-> << >>, hits |-> << >>, last_access |-> << >>]

VARIABLES
    clock,          \* wall clock, seconds
    current,        \* LinkMetrics.current: the active table
    tbl,            \* tbl[t]: contents of table t, EntityKey -> LinkMetricsData
    returned,       \* tables swap_map has returned
    wlock,          \* wlock[t][s]: handler holding the write lock of shard s of t
    pc, key, now_s, map, last_access_s, retries,   \* record_hit locals per handler
    fpc, fmap, fshard, flen, frl, visited,         \* process_batch_task locals
    link_cols, col_cols,                           \* the two column triples
    daily_metrics, collection_metrics,             \* durable rows, (day, id) -> row
    calls,          \* history: record_hit(k) calls made
    startEpoch,     \* history: swaps done when the handler's call started
    maxTs,          \* history: maxTs[t][k] largest now_s of a call that entered (t, k)
    cycles,         \* history: flush cycles completed
    failed,         \* history: some flush cycle ended with an error
    stored,         \* history: stored[t][k] hits of (t, k) written by committed chunks
    dropped,        \* history: entries (t, k) left unwritten when the cycle of t failed
    quiet,          \* history: no record_hit was in progress since the last swap began
    cancel_token,   \* Scheduler.cancel_token: TRUE once cancelled
    tasks,          \* Scheduler.tasks: the state of each spawned job's loop
    due,            \* due[j]: interval ticks of job j that have elapsed and are not consumed
    periods,        \* periods[j]: interval periods elapsed since job j was spawned
    sd,             \* position of Scheduler::shutdown
    timeout_s,      \* shutdown's argument
    elapsed,        \* seconds since shutdown computed its deadline
    remaining,      \* the duration given to time::timeout at line 70
    joinset,        \* jobs whose task is in the JoinSet (spawned, not joined)
    left,           \* history: jobs still alive in the JoinSet when shutdown returned
    log,            \* the tracing records of the scheduler, in order
    runs,           \* history: runs[j] invocations of job j's body started
    active,         \* history: active[j] invocations of job j's body in progress
    early,          \* history: jobs that exited before the deadline of shutdown
    today,          \* CURRENT_DATE of the database server, a day number
    parts,          \* the partitions of daily_metrics and collection_metrics
    ppc,            \* position of create_partitions_task
    p_today,        \* create_partitions_task: today
    offset,         \* create_partitions_task: offset
    pstmt,          \* create_partitions_task: the table of the next statement
    issued,         \* history: statements (offset, table) issued by the tick
    presult,        \* history: how the last tick ended
    okDay,          \* history: today of the last tick that returned Ok
    okParts,        \* history: the partitions after the first Ok tick of okDay
    okRuns,         \* history: Ok ticks that ran with today = okDay
    pfailed,        \* history: some tick returned an error
    starved,        \* history: a day ended without an Ok tick of that day, or within a tick of an earlier day
    missing,        \* history: a flush write found no partition for its day
    lastWrite,      \* history: day of the last flush write that found its partition
    cache,          \* the link cache: alias -> cached Option<CachedLink>, or Absent
    links,          \* links_main: links[a] iff a row with alias a exists
    inflight,       \* inflight[a]: backing lookups of alias a now running
    cpc, calias, cres,   \* fetch_link per caller: position, alias, result of the cache
    lookups,        \* history: lookups[a] backing lookups of alias a started
    flight,         \* history: flight[c] the lookup of its alias caller c waits on
    cachedAt,       \* history: cachedAt[a] the lookup that filled the entry of a
    lastRes,        \* history: lastRes[a] result of the last finished lookup of a
    evicted,        \* history: the entry of a was evicted after its last lookup
    gets,           \* history: cache lookups made
    dbChanges,      \* history: changes of links_main made
    base,           \* the durable table before two writes
    writes,         \* the two writes (day, id, hits, last_access)
    urows,          \* the table as the writes are applied first, second
    rrows,          \* the table as the writes are applied second, first
    ustep,          \* writes applied
    links_main,     \* links_main for link_cleanup_task: id -> last_seen
    lpc,            \* position of link_cleanup_task
    entries_deleted,   \* link_cleanup_task: entries_deleted
    lstart,         \* history: links_main when the task started
    lcutoff,        \* history: CURRENT_DATE - TTI_DAYS of the task's last statement
    lseen,          \* history: last_seen updates made while the task ran
    mlinks,         \* the table links: id -> [created_at, last_accessed_at]
    mpc,            \* position of CleanupUnusedLinksTask::execute
    days_unused,    \* CleanupUnusedLinksTask.days_unused
    deleted_count,  \* execute: deleted_count
    cache_calls,    \* the calls execute made on its dyn Cache, in order
    mexecs,         \* history: runs of execute started
    mbefore,        \* history: the table links when execute was called
    sdata,          \* the Database of App: the aliases stored
    spc,            \* position of App::shorten_url
    attempt,        \* shorten_url: iterations of the retry loop begun
    salias,         \* shorten_url: alias
    sresult,        \* shorten_url: what it returned
    insert_errors,  \* failures the database still has in store for insert
    serrs,          \* history: inserts of this call that failed
    taken,          \* history: aliases inserted by other requests
    tdb,            \* the committed metric rows and parent rows, per kind of entity
    ttx,            \* the same tables as the open transaction sees them
    tpc,            \* position of flush_to_db / flush_collection_to_db
    tkind,          \* which of the two functions runs: "Link" or "Collection"
    tcols,          \* its three column slices
    tday,           \* CURRENT_DATE of the transaction
    tbefore,        \* history: tdb when the function was called
    tfailed,        \* history: the step of the last call that failed
    tflushes,       \* history: calls of the two functions
    qmap,           \* flush_metrics: the drained table, in the order map.iter() yields it
    qpc,            \* position of process_batch
    qi,             \* the entry the iterator is at
    link_id_col,    \* the three columns of process_batch
    hits_col,
    last_access_col,
    entries_updated,
    qcycles,        \* history: calls of process_batch
    qerrs,          \* history: calls that returned Err
    xday,           \* fetch_link: today, in days since the first day
    xrow,           \* last_seen of the row of links_main for the alias, NoDay without row
    xentry,         \* the cache entry of the alias
    xidle,          \* day changes since the entry was last accessed
    xhit,           \* the active table holds a hit for the link
    xresult,        \* what the last fetch_link returned
    xused,          \* history: the last_seen the last expiry decision used
    xflushed,       \* history: day of the last flush that recorded a hit for the link
    xhitToday,      \* history: a redirect succeeded today
    xdaily,         \* history: a redirect succeeded on every day that has ended
    week_days,      \* usage_metrics::Metrics: [MetricsDay; 7] of [Hour; 24] of counters
    ustatus,        \* how the last call of Metrics::log ended
    unow,           \* history: OffsetDateTime::now_utc() of the last call, in hours
    ucat,           \* history: its category
    ulogs,          \* history: calls of Metrics::log
    rtoday,         \* app.rs: the date, in days since 1970-01-01
    rparts,         \* the partitions of recent_hits
    rpc,            \* position of create_daily_partition
    r_today,        \* its local today
    rokDay,         \* history: today of its last call that returned Ok
    rhit,           \* how the last INSERT INTO recent_hits of get_url ended
    rhitDay,        \* history: the day of that insert
    rhitOk,         \* history: rokDay at that insert
    rhits           \* history: inserts into recent_hits

metricsVars ==
    << clock, current, tbl, returned, wlock, pc, key, now_s, map, last_access_s,
       retries, fpc, fmap, fshard, flen, frl, visited, link_cols, col_cols,
       daily_metrics, collection_metrics, stored, calls, startEpoch, maxTs, cycles,
       failed, dropped, quiet >>

schedVars ==
    << cancel_token, tasks, due, periods, sd, timeout_s, elapsed, remaining, joinset,
       left, log, runs, active, early >>

partVars ==
    << today, parts, ppc, p_today, offset, pstmt, issued, presult, okDay, okParts, okRuns,
       pfailed, starved, missing, lastWrite >>

cacheVars ==
    << cache, links, inflight, cpc, calias, cres, lookups, flight, cachedAt, lastRes,
       evicted, gets, dbChanges >>

upsertVars == << base, writes, urows, rrows, ustep >>

cleanVars == << links_main, lpc, entries_deleted, lstart, lcutoff, lseen >>

maintVars == << mlinks, mpc, days_unused, deleted_count, cache_calls, mexecs, mbefore >>

\* the state of the subsystems other than those of finalVars
firstVars == << metricsVars, schedVars, partVars, cacheVars, upsertVars, cleanVars, maintVars >>

shortenVars == << sdata, spc, attempt, salias, sresult, insert_errors, serrs, taken >>

txVars == << tdb, ttx, tpc, tkind, tcols, tday, tbefore, tfailed, tflushes >>

batchVars ==
    << qmap, qpc, qi, link_id_col, hits_col, last_access_col, entries_updated, qcycles,
       qerrs >>

fetchVars == << xday, xrow, xentry, xidle, xhit, xresult, xused, xflushed, xhitToday, xdaily >>

usageVars == << week_days, ustatus, unow, ucat, ulogs >>

recentVars == << rtoday, rparts, rpc, r_today, rokDay, rhit, rhitDay, rhitOk, rhits >>

\* the state of App::shorten_url, of one chunk's transaction, of process_batch of
\* flush_metrics, of fetch_link, of Metrics::log and of create_daily_partition of app.rs
finalVars == << shortenVars, txVars, batchVars, fetchVars, usageVars, recentVars >>

\* what the steps of App::shorten_url leave alone
exceptShorten == << firstVars, txVars, batchVars, fetchVars, usageVars, recentVars >>

\* what the steps of one chunk's transaction leave alone
exceptTx == << firstVars, shortenVars, batchVars, fetchVars, usageVars, recentVars >>

\* what the steps of flush_metrics::process_batch leave alone
exceptBatch == << firstVars, shortenVars, txVars, fetchVars, usageVars, recentVars >>

\* what the steps of fetch_link leave alone
exceptFetch == << firstVars, shortenVars, txVars, batchVars, usageVars, recentVars >>

\* what the steps of usage_metrics::Metrics::log leave alone
exceptUsage == << firstVars, shortenVars, txVars, batchVars, fetchVars, recentVars >>

\* what the steps of create_daily_partition of app.rs leave alone
exceptRecent == << firstVars, shortenVars, txVars, batchVars, fetchVars, usageVars >>

\* what the steps of the cache leave alone, besides the cache
restVars == << upsertVars, cleanVars, maintVars, finalVars >>

\* the state of the cache, the upsert pair, the two cleanup tasks and finalVars
laterVars == << cacheVars, restVars >>

vars == << metricsVars, schedVars, partVars, laterVars >>

\* what the steps of record_hit and of the flusher leave alone
otherVars == << schedVars, partVars, laterVars >>

\* what the steps of the Scheduler leave alone
nonSchedVars == << metricsVars, partVars, laterVars >>

handlerVars == << pc, key, now_s, map, last_access_s, retries >>
flusherVars == << fpc, fmap, fshard, flen, frl, visited, link_cols, col_cols >>
durableVars == << daily_metrics, collection_metrics, stored >>

EmptyTable == [k \in {} |-> 0]

\* LinkMetrics::default and the state before any request
MetricsInit ==
    /\ clock = 0
    /\ current = 0
    /\ tbl = [t \in Tables |-> EmptyTable]
    /\ returned = {}
    /\ wlock = [t \in Tables |-> [s \in Shards |-> NoProc]]
    /\ pc = [p \in Procs |-> "idle"]
    /\ key = [p \in Procs |-> NoKey]
    /\ now_s = [p \in Procs |-> 0]
    /\ map = [p \in Procs |-> 0]
    /\ last_access_s = [p \in Procs |-> 0]
    /\ retries = [p \in Procs |-> 0]
    /\ fpc = "idle"
    /\ fmap = 0
    /\ fshard = 0
    /\ flen = 0
    /\ frl = NoShard
    /\ visited = {}
    /\ link_cols = EmptyCols
    /\ col_cols = EmptyCols
    /\ daily_metrics = EmptyTable
    /\ collection_metrics = EmptyTable
    /\ calls = [k \in EntityKey |-> 0]
    /\ startEpoch = [p \in Procs |-> 0]
    /\ maxTs = [t \in Tables |-> [k \in EntityKey |-> -1]]
    /\ cycles = 0
    /\ failed = FALSE
    /\ stored = [t \in Tables |-> [k \in EntityKey |-> 0]]
    /\ dropped = {}
    /\ quiet = FALSE

\* Scheduler::default: a fresh token, an empty JoinSet
SchedInit ==
    /\ cancel_token = FALSE
    /\ tasks = [j \in Jobs |-> "none"]
    /\ due = [j \in Jobs |-> 0]
    /\ periods = [j \in Jobs |-> 0]
    /\ sd = "none"
    /\ timeout_s = 0
    /\ elapsed = 0
    /\ remaining = 0
    /\ joinset = {}
    /\ left = {}
    /\ log = << >>
    /\ runs = [j \in Jobs |-> 0]
    /\ active = [j \in Jobs |-> 0]
    /\ early = {}

\* the database before the first tick: no partition yet
PartInit ==
    /\ today = StartDay
    /\ parts = {}
    /\ ppc = "idle"
    /\ p_today = 0
    /\ offset = 0
    /\ pstmt = "daily_metrics"
    /\ issued = {}
    /\ presult = "none"
    /\ okDay = NoDay
    /\ okParts = {}
    /\ okRuns = 0
    /\ pfailed = FALSE
    /\ starved = FALSE
    /\ missing = FALSE
    /\ lastWrite = NoDay

\* the value of the cache for an alias without entry
Absent == [alias |-> 0, found |-> FALSE]

\* the Err(ServiceError) a failed lookup resolves to
CacheErr == [alias |-> 0, found |-> TRUE]

\* an empty cache, no link, no request
CacheInit ==
    /\ cache = [a \in Aliases |-> Absent]
    /\ links = [a \in Aliases |-> FALSE]
    /\ inflight = [a \in Aliases |-> 0]
    /\ cpc = [c \in Callers |-> "idle"]
    /\ calias = [c \in Callers |-> 1]
    /\ cres = [c \in Callers |-> Absent]
    /\ lookups = [a \in Aliases |-> 0]
    /\ flight = [c \in Callers |-> 0]
    /\ cachedAt = [a \in Aliases |-> 0]
    /\ lastRes = [a \in Aliases |-> Absent]
    /\ evicted = [a \in Aliases |-> FALSE]
    /\ gets = 0
    /\ dbChanges = 0

\* no durable row, no write chosen
UpsertInit ==
    /\ base = EmptyTable
    /\ writes = << >>
    /\ urows = EmptyTable
    /\ rrows = EmptyTable
    /\ ustep = 0

\* links_main before any link is created, link_cleanup_task not started
CleanInit ==
    /\ links_main = EmptyTable
    /\ lpc = "idle"
    /\ entries_deleted = 0
    /\ lstart = EmptyTable
    /\ lcutoff = NoDay
    /\ lseen = 0

\* the table links before any link is created, execute not started
MaintInit ==
    /\ mlinks = EmptyTable
    /\ mpc = "idle"
    /\ days_unused = 0
    /\ deleted_count = 0
    /\ cache_calls = << >>
    /\ mexecs = 0
    /\ mbefore = EmptyTable

\* an empty Database, shorten_url not called
ShortenInit ==
    /\ sdata = {}
    /\ spc = "idle"
    /\ attempt = 0
    /\ salias = 0
    /\ sresult = "none"
    /\ insert_errors = 0
    /\ serrs = 0
    /\ taken = 0

Kinds == {"Link", "Collection"}

\* no metric row, no parent row, no flush
TxInit ==
    /\ tdb = [metrics |-> [kd \in Kinds |-> EmptyTable], parents |-> [kd \in Kinds |-> EmptyTable]]
    /\ ttx = tdb
    /\ tpc = "idle"
    /\ tkind = "Link"
    /\ tcols = EmptyCols
    /\ tday = StartDay
    /\ tbefore = tdb
    /\ tfailed = "none"
    /\ tflushes = 0

\* flush_metrics before the first tick
BatchInit ==
    /\ qmap = << >>
    /\ qpc = "idle"
    /\ qi = 1
    /\ link_id_col = << >>
    /\ hits_col = << >>
    /\ last_access_col = << >>
    /\ entries_updated = 0
    /\ qcycles = 0
    /\ qerrs = 0

\* the cache without an entry for the alias
NoEntry == [cached |-> FALSE, found |-> FALSE, last_seen |-> NoDay]

\* no link, an empty cache, no request
FetchInit ==
    /\ xday = 0
    /\ xrow = NoDay
    /\ xentry = NoEntry
    /\ xidle = 0
    /\ xhit = FALSE
    /\ xresult = "none"
    /\ xused = NoDay
    /\ xflushed = NoDay
    /\ xhitToday = FALSE
    /\ xdaily = TRUE

\* recent_hits without a partition, no call of create_daily_partition
RecentInit ==
    /\ rtoday = StartDay
    /\ rparts = {}
    /\ rpc = "idle"
    /\ r_today = StartDay
    /\ rokDay = NoDay
    /\ rhit = "none"
    /\ rhitDay = NoDay
    /\ rhitOk = NoDay
    /\ rhits = 0

Categories == {"redirect", "recent", "shorten"}

\* Metrics::default(): every counter is 0
UsageInit ==
    /\ week_days = [d \in 0..6 |-> [h \in 0..23 |-> [c \in Categories |-> 0]]]
    /\ ustatus = "none"
    /\ unow = 0
    /\ ucat = "redirect"
    /\ ulogs = 0

FinalInit == ShortenInit /\ TxInit /\ BatchInit /\ FetchInit /\ UsageInit /\ RecentInit

Init ==
    /\ MetricsInit /\ SchedInit /\ PartInit /\ CacheInit /\ UpsertInit /\ CleanInit /\ MaintInit
    /\ FinalInit

\* the system clock advances
Tick ==
    /\ clock < MaxTime
    /\ clock' = clock + 1
    /\ UNCHANGED << otherVars, current, tbl, returned, wlock, handlerVars, flusherVars,
                    durableVars, calls, startEpoch, maxTs, cycles, failed, dropped, quiet >>

\* ------------------------------------------------ LinkMetrics::record_hit
RECURSIVE SumOver(_, _)
SumOver(f, S) ==
    IF S = {} THEN 0
    ELSE LET x == CHOOSE y \in S : TRUE IN f[x] + SumOver(f, S \ {x})

CallsMade == SumOver(calls, EntityKey)

\* the flusher's DashMap iterator holds the read lock of shard s of table t
ReadLocked(t, s) == fmap = t /\ frl = s

\* a request handler calls record_hit(k); line 58 reads the clock
RecordHitCall(p, k) ==
    /\ pc[p] = "idle"
    /\ CallsMade < MaxCalls
    /\ now_s' = [now_s EXCEPT ![p] = clock]
    /\ key' = [key EXCEPT ![p] = k]
    /\ retries' = [retries EXCEPT ![p] = 0]
    /\ pc' = [pc EXCEPT ![p] = "load"]
    /\ calls' = [calls EXCEPT ![k] = @ + 1]
    /\ startEpoch' = [startEpoch EXCEPT ![p] = Cardinality(returned)]
    /\ quiet' = FALSE
    /\ UNCHANGED << otherVars, clock, current, tbl, returned, wlock, map, last_access_s,
                    flusherVars, durableVars, maxTs, cycles, failed, dropped >>

\* line 60: let map = self.current.load()
LoadMap(p) ==
    /\ pc[p] = "load"
    /\ map' = [map EXCEPT ![p] = current]
    /\ pc' = [pc EXCEPT ![p] = "entry"]
    /\ UNCHANGED << otherVars, clock, current, tbl, returned, wlock, key, now_s, last_access_s,
                    retries, flusherVars, durableVars, calls, startEpoch, maxTs,
                    cycles, failed, dropped, quiet >>

\* line 61: map.entry(key).or_insert(LinkMetricsData::new(now_s)); the RefMut
\* returned keeps the shard's write lock until record_hit returns
Entry(p) ==
    LET t == map[p]
        k == key[p]
        s == ShardOf(k)
    IN  /\ pc[p] = "entry"
        /\ wlock[t][s] = NoProc
        /\ ~ReadLocked(t, s)
        /\ wlock' = [wlock EXCEPT ![t][s] = p]
        /\ tbl' = [tbl EXCEPT ![t] =
                     IF k \in DOMAIN tbl[t] THEN tbl[t]
                     ELSE [x \in DOMAIN tbl[t] \cup {k} |->
                             IF x = k THEN LinkMetricsData_new(now_s[p]) ELSE tbl[t][x]]]
        /\ maxTs' = [maxTs EXCEPT ![t][k] = IF now_s[p] > @ THEN now_s[p] ELSE @]
        /\ pc' = [pc EXCEPT ![p] = "fetch_add"]
        /\ UNCHANGED << otherVars, clock, current, returned, key, now_s, map, last_access_s,
                        retries, flusherVars, durableVars, calls, startEpoch,
                        cycles, failed, dropped, quiet >>

\* line 63: val.hits.fetch_add(1, Relaxed)
FetchAdd(p) ==
    /\ pc[p] = "fetch_add"
    /\ tbl' = [tbl EXCEPT ![map[p]][key[p]].hits = @ + 1]
    /\ pc' = [pc EXCEPT ![p] = "load_last"]
    /\ UNCHANGED << otherVars, clock, current, returned, wlock, key, now_s, map, last_access_s,
                    retries, flusherVars, durableVars, calls, startEpoch, maxTs,
                    cycles, failed, dropped, quiet >>

\* line 65: let mut last_access_s = val.last_access_s.load(Relaxed)
LoadLast(p) ==
    /\ pc[p] = "load_last"
    /\ last_access_s' = [last_access_s EXCEPT ![p] = tbl[map[p]][key[p]].last_access_s]
    /\ pc' = [pc EXCEPT ![p] = "cas_loop"]
    /\ UNCHANGED << otherVars, clock, current, tbl, returned, wlock, key, now_s, map, retries,
                    flusherVars, durableVars, calls, startEpoch, maxTs, cycles,
                    failed, dropped, quiet >>

\* a return that leaks the RefMut: the shard stays write-locked
ReturnFrom_keeps_lock(p) ==
    /\ wlock' = wlock
    /\ pc' = [pc EXCEPT ![p] = "idle"]
    /\ key' = [key EXCEPT ![p] = NoKey]
    /\ now_s' = [now_s EXCEPT ![p] = 0]
    /\ map' = [map EXCEPT ![p] = 0]
    /\ last_access_s' = [last_access_s EXCEPT ![p] = 0]
    /\ retries' = [retries EXCEPT ![p] = 0]
    /\ startEpoch' = [startEpoch EXCEPT ![p] = 0]

\* record_hit returns: val (the RefMut) and the ArcSwap guard are dropped
ReturnFrom(p) ==
    /\ wlock' = [wlock EXCEPT ![map[p]][ShardOf(key[p])] = NoProc]
    /\ pc' = [pc EXCEPT ![p] = "idle"]
    /\ key' = [key EXCEPT ![p] = NoKey]
    /\ now_s' = [now_s EXCEPT ![p] = 0]
    /\ map' = [map EXCEPT ![p] = 0]
    /\ last_access_s' = [last_access_s EXCEPT ![p] = 0]
    /\ retries' = [retries EXCEPT ![p] = 0]
    /\ startEpoch' = [startEpoch EXCEPT ![p] = 0]

\* a loop condition that stores whenever the two values differ
NeedsUpdate_differs(p) == now_s[p] # last_access_s[p]

\* line 66: the loop condition, while now_s > last_access_s
NeedsUpdate(p) == now_s[p] > last_access_s[p]

\* line 66: the loop condition is false, the loop is left
CasLoopExit(p) ==
    /\ pc[p] = "cas_loop"
    /\ ~NeedsUpdate(p)
    /\ ReturnFrom(p)
    /\ UNCHANGED << otherVars, clock, current, tbl, returned, flusherVars, durableVars, calls, maxTs,
                    cycles, failed, dropped, quiet >>

\* lines 67-73: compare_exchange_weak succeeds, Ok(_) => break
CasOk(p) ==
    /\ pc[p] = "cas_loop"
    /\ NeedsUpdate(p)
    /\ tbl[map[p]][key[p]].last_access_s = last_access_s[p]
    /\ tbl' = [tbl EXCEPT ![map[p]][key[p]].last_access_s = now_s[p]]
    /\ ReturnFrom(p)
    /\ UNCHANGED << otherVars, clock, current, returned, flusherVars, durableVars, calls, maxTs,
                    cycles, failed, dropped, quiet >>

\* lines 67-74: compare_exchange_weak fails, Err(next) => last_access_s = next.
\* The shard's write lock is held, so no other writer changes the value and a
\* failure is a spurious one; retries counts them up to MaxSpurious, a further
\* one would leave the state as it is
CasFail(p) ==
    /\ pc[p] = "cas_loop"
    /\ NeedsUpdate(p)
    /\ retries[p] < MaxSpurious
    /\ retries' = [retries EXCEPT ![p] = IF @ < MaxSpurious THEN @ + 1 ELSE @]
    /\ last_access_s' = [last_access_s EXCEPT ![p] = tbl[map[p]][key[p]].last_access_s]
    /\ UNCHANGED << otherVars, clock, current, tbl, returned, wlock, pc, key, now_s, map,
                    flusherVars, durableVars, calls, startEpoch, maxTs, cycles,
                    failed, dropped, quiet >>

RecordHitStep(p) ==
    \/ \E k \in EntityKey : RecordHitCall(p, k)
    \/ LoadMap(p)
    \/ Entry(p)
    \/ FetchAdd(p)
    \/ LoadLast(p)
    \/ CasLoopExit(p)
    \/ CasOk(p)
    \/ CasFail(p)

\* ------------------------------------------------ LinkMetrics::swap_map
\* swap_map that hands out the active table and leaves it installed
swap_map_keeps_table ==
    /\ current' = current
    /\ returned' = returned \cup {current}
    /\ fmap' = current

\* line 80: self.current.swap(Arc::new(DashMap::new())); the previous table is
\* returned, the active table becomes a freshly allocated one
swap_map ==
    /\ current' = current + 1
    /\ returned' = returned \cup {current}
    /\ fmap' = current

\* ------------------------------------------------ flush_to_db
Max(a, b) == IF a >= b THEN a ELSE b

\* an upsert whose DO UPDATE takes the last_access of the new row
UpsertRow_overwrites(rows, day, id, hits, last_access) ==
    LET rk == << day, id >>
    IN  [x \in DOMAIN rows \cup {rk} |->
            IF x # rk THEN rows[x]
            ELSE IF rk \in DOMAIN rows
                 THEN [hits |-> rows[rk].hits + hits, last_access |-> last_access]
                 ELSE [hits |-> hits, last_access |-> last_access]]

\* INSERT ... ON CONFLICT (day, id) DO UPDATE of one unnested row
UpsertRow(rows, day, id, hits, last_access) ==
    LET rk == << day, id >>
    IN  [x \in DOMAIN rows \cup {rk} |->
            IF x # rk THEN rows[x]
            ELSE IF rk \in DOMAIN rows
                 THEN [hits |-> rows[rk].hits + hits,
                       last_access |-> Max(rows[rk].last_access, last_access)]
                 ELSE [hits |-> hits, last_access |-> last_access]]

\* the upsert over UNNEST(ids, hits, last_access), rows i..Len
RECURSIVE UpsertFrom(_, _, _, _)
UpsertFrom(rows, day, cols, i) ==
    IF i > Len(cols.id) THEN rows
    ELSE UpsertFrom(UpsertRow(rows, day, cols.id[i], cols.hits[i], cols.last_access[i]),
                    day, cols, i + 1)

\* flush_to_db / flush_collection_to_db when the transaction commits:
\* nothing for an empty chunk, else the upsert with day = CURRENT_DATE
flush_to_db(rows, cols, day) ==
    IF Len(cols.id) = 0 THEN rows ELSE UpsertFrom(rows, day, cols, 1)

\* ------------------------------------------------ process_batch_task
KeysInShard(t, s) == {k \in DOMAIN tbl[t] : ShardOf(k) = s}

PushCols(cols, id, hits, last_access) ==
    [id |-> Append(cols.id, id),
     hits |-> Append(cols.hits, hits),
     last_access |-> Append(cols.last_access, last_access)]

\* history: the chunk cols of table t, keys of the given kind, is committed
RECURSIVE StoreFrom(_, _, _, _, _)
StoreFrom(st, t, kind, cols, i) ==
    IF i > Len(cols.id) THEN st
    ELSE StoreFrom([st EXCEPT ![t][[kind |-> kind, id |-> cols.id[i]]] = @ + cols.hits[i]],
                   t, kind, cols, i + 1)

\* history: the entries of table t that no committed chunk has written
Unwritten(t) == {<< t, k >> : k \in {x \in DOMAIN tbl[t] : stored[t][x] = 0}}

\* the cycle returns (Ok or Err): its locals, the iterator and the table go away
EndCycle(err) ==
    /\ fpc' = "idle"
    /\ fshard' = 0
    /\ flen' = 0
    /\ frl' = NoShard
    /\ visited' = {}
    /\ link_cols' = EmptyCols
    /\ col_cols' = EmptyCols
    /\ cycles' = cycles + 1
    /\ failed' = (failed \/ err)
    /\ dropped' = IF err THEN dropped \cup Unwritten(fmap) ELSE dropped

\* line 95: let map = metrics.swap_map()
StartCycle ==
    /\ fpc = "idle"
    /\ current < MaxSwaps
    /\ swap_map
    /\ fpc' = "is_empty"
    /\ fshard' = 0
    /\ flen' = 0
    /\ quiet' = (\A p \in Procs : pc[p] = "idle")
    /\ UNCHANGED << otherVars, clock, tbl, wlock, handlerVars, frl, visited, link_cols, col_cols,
                    durableVars, calls, startEpoch, maxTs, cycles, failed, dropped >>

\* line 97: map.is_empty() sums the shard lengths, read-locking one shard at a time
IsEmpty ==
    /\ fpc = "is_empty"
    /\ wlock[fmap][fshard] = NoProc
    /\ LET n == flen + Cardinality(KeysInShard(fmap, fshard))
       IN  IF fshard + 1 < NShards
           THEN /\ flen' = n
                /\ fshard' = fshard + 1
                /\ UNCHANGED << fpc, frl, visited, link_cols, col_cols, cycles, failed, dropped >>
           ELSE IF n = 0
           THEN EndCycle(FALSE)
           ELSE /\ fpc' = "iter"
                /\ fshard' = 0
                /\ flen' = 0
                /\ UNCHANGED << frl, visited, link_cols, col_cols, cycles, failed, dropped >>
    /\ UNCHANGED << otherVars, clock, current, tbl, returned, wlock, handlerVars, fmap,
                    durableVars, calls, startEpoch, maxTs, quiet >>

\* line 113, DashMap Iter::next at the end of a shard: read-lock the next shard
\* (the previous guard is dropped only then), or end the loop after the last
IterAdvance ==
    /\ fpc = "iter"
    /\ frl = NoShard \/ KeysInShard(fmap, frl) \subseteq visited
    /\ IF fshard = NShards
       THEN /\ frl' = NoShard
            /\ fpc' = "rest_link"
            /\ UNCHANGED fshard
       ELSE /\ wlock[fmap][fshard] = NoProc
            /\ frl' = fshard
            /\ fshard' = fshard + 1
            /\ UNCHANGED fpc
    /\ visited' = {}
    /\ UNCHANGED << otherVars, clock, current, tbl, returned, wlock, handlerVars, fmap, flen,
                    link_cols, col_cols, durableVars, calls, startEpoch, maxTs,
                    cycles, failed, dropped, quiet >>

\* lines 114-151: the loop body for one entry of the locked shard
IterEntry(k) ==
    /\ fpc = "iter"
    /\ frl # NoShard
    /\ k \in KeysInShard(fmap, frl) \ visited
    /\ LET val == tbl[fmap][k]
           hits == val.hits
           last_access == from_unix_timestamp(val.last_access_s)
       IN  IF hits = 0
           THEN /\ visited' = visited \cup {k}
                /\ UNCHANGED << fpc, fshard, flen, frl, link_cols, col_cols, cycles, failed, dropped >>
           ELSE IF ~last_access.ok
           THEN EndCycle(TRUE)
           ELSE IF k.kind = "Link"
           THEN /\ link_cols' = PushCols(link_cols, k.id, hits, last_access.value)
                /\ fpc' = IF Len(link_cols'.id) = CHUNK_SIZE THEN "flush_link" ELSE "iter"
                /\ visited' = visited \cup {k}
                /\ UNCHANGED << fshard, flen, frl, col_cols, cycles, failed, dropped >>
           ELSE /\ col_cols' = PushCols(col_cols, k.id, hits, last_access.value)
                /\ fpc' = IF Len(col_cols'.id) = CHUNK_SIZE THEN "flush_col" ELSE "iter"
                /\ visited' = visited \cup {k}
                /\ UNCHANGED << fshard, flen, frl, link_cols, cycles, failed, dropped >>
    /\ UNCHANGED << otherVars, clock, current, tbl, returned, wlock, handlerVars, fmap,
                    durableVars, calls, startEpoch, maxTs, quiet >>

\* lines 130-133: a full link chunk is written inside the loop, then cleared
FlushLinkChunk ==
    /\ fpc = "flush_link"
    /\ daily_metrics' = flush_to_db(daily_metrics, link_cols, DayOf(clock))
    /\ stored' = StoreFrom(stored, fmap, "Link", link_cols, 1)
    /\ link_cols' = EmptyCols
    /\ fpc' = "iter"
    /\ UNCHANGED << otherVars, clock, current, tbl, returned, wlock, handlerVars, fmap, fshard,
                    flen, frl, visited, col_cols, collection_metrics, calls,
                    startEpoch, maxTs, cycles, failed, dropped, quiet >>

\* lines 142-146: a full collection chunk is written inside the loop, then cleared
FlushCollectionChunk ==
    /\ fpc = "flush_col"
    /\ collection_metrics' = flush_to_db(collection_metrics, col_cols, DayOf(clock))
    /\ stored' = StoreFrom(stored, fmap, "Collection", col_cols, 1)
    /\ col_cols' = EmptyCols
    /\ fpc' = "iter"
    /\ UNCHANGED << otherVars, clock, current, tbl, returned, wlock, handlerVars, fmap, fshard,
                    flen, frl, visited, link_cols, daily_metrics, calls,
                    startEpoch, maxTs, cycles, failed, dropped, quiet >>

\* line 155: flush_to_db for the remaining link entries
FlushRestLink ==
    /\ fpc = "rest_link"
    /\ daily_metrics' = flush_to_db(daily_metrics, link_cols, DayOf(clock))
    /\ stored' = StoreFrom(stored, fmap, "Link", link_cols, 1)
    /\ fpc' = "rest_col"
    /\ UNCHANGED << otherVars, clock, current, tbl, returned, wlock, handlerVars, fmap, fshard,
                    flen, frl, visited, link_cols, col_cols, collection_metrics, calls,
                    startEpoch, maxTs, cycles, failed, dropped, quiet >>

\* lines 156-161: flush_collection_to_db for the remaining collection entries, Ok(())
FlushRestCollection ==
    /\ fpc = "rest_col"
    /\ collection_metrics' = flush_to_db(collection_metrics, col_cols, DayOf(clock))
    /\ stored' = StoreFrom(stored, fmap, "Collection", col_cols, 1)
    /\ EndCycle(FALSE)
    /\ UNCHANGED << otherVars, clock, current, tbl, returned, wlock, handlerVars, fmap,
                    daily_metrics, calls, startEpoch, maxTs, quiet >>

\* a chunk write that reports its error after the chunk was committed
FlushError_commits ==
    /\ \/ fpc = "flush_link"
       \/ fpc = "flush_col"
       \/ fpc = "rest_link" /\ Len(link_cols.id) > 0
       \/ fpc = "rest_col" /\ Len(col_cols.id) > 0
    /\ IF fpc \in {"flush_link", "rest_link"}
       THEN /\ daily_metrics' = flush_to_db(daily_metrics, link_cols, DayOf(clock))
            /\ stored' = StoreFrom(stored, fmap, "Link", link_cols, 1)
            /\ UNCHANGED collection_metrics
       ELSE /\ collection_metrics' = flush_to_db(collection_metrics, col_cols, DayOf(clock))
            /\ stored' = StoreFrom(stored, fmap, "Collection", col_cols, 1)
            /\ UNCHANGED daily_metrics
    /\ EndCycle(TRUE)
    /\ UNCHANGED << otherVars, clock, current, tbl, returned, wlock, handlerVars, fmap,
                    calls, startEpoch, maxTs, quiet >>

\* a statement or the commit of a non-empty chunk fails: the transaction is
\* rolled back and `?` returns the error from process_batch_task
FlushError ==
    /\ \/ fpc = "flush_link"
       \/ fpc = "flush_col"
       \/ fpc = "rest_link" /\ Len(link_cols.id) > 0
       \/ fpc = "rest_col" /\ Len(col_cols.id) > 0
    /\ EndCycle(TRUE)
    /\ UNCHANGED << otherVars, clock, current, tbl, returned, wlock, handlerVars, fmap,
                    durableVars, calls, startEpoch, maxTs, quiet >>

FlusherStep ==
    \/ StartCycle
    \/ IsEmpty
    \/ IterAdvance
    \/ \E k \in EntityKey : IterEntry(k)
    \/ FlushLinkChunk
    \/ FlushCollectionChunk
    \/ FlushRestLink
    \/ FlushRestCollection
    \/ FlushError

Next ==
    \/ Tick
    \/ \E p \in Procs : RecordHitStep(p)
    \/ FlusherStep

Spec == Init /\ [][Next]_vars

\* ------------------------------------------------ Scheduler
\* the job's task has returned from its loop
Exited(j) == tasks[j] \in {"ok", "err"}

\* the job's task is still alive: waiting in select! or inside its body
Alive(j) == tasks[j] \in {"select", "running"}

\* history: the instant is before the deadline of shutdown (or before its call)
BeforeDeadline == sd = "none" \/ (sd # "returned" /\ elapsed < timeout_s)

\* spawn_task, lines 35-37: the job's loop starts on its own tokio task owned
\* by the JoinSet; time::interval completes its first tick immediately
spawn_task(j) ==
    /\ sd = "none"
    /\ tasks[j] = "none"
    /\ tasks' = [tasks EXCEPT ![j] = "select"]
    /\ due' = [due EXCEPT ![j] = 1]
    /\ joinset' = joinset \cup {j}
    /\ UNCHANGED << nonSchedVars, cancel_token, periods, sd, timeout_s, elapsed, remaining,
                    left, log, runs, active, early >>

\* one more period of job j's interval elapses (missed ticks stay due: Burst)
PeriodElapses(j) ==
    /\ Alive(j)
    /\ periods[j] < MaxPeriods
    /\ periods' = [periods EXCEPT ![j] = @ + 1]
    /\ due' = [due EXCEPT ![j] = @ + 1]
    /\ UNCHANGED << nonSchedVars, cancel_token, tasks, sd, timeout_s, elapsed, remaining,
                    joinset, left, log, runs, active, early >>

\* lines 40-41: select! takes the branch of cancel.cancelled(), a branch that
\* is ready once the token is cancelled; the loop breaks and line 51 returns
\* (name, Ok(()))
SelectCancelled(j) ==
    /\ tasks[j] = "select"
    /\ cancel_token
    /\ tasks' = [tasks EXCEPT ![j] = "ok"]
    /\ early' = IF BeforeDeadline THEN early \cup {j} ELSE early
    /\ UNCHANGED << nonSchedVars, cancel_token, due, periods, sd, timeout_s, elapsed,
                    remaining, joinset, left, log, runs, active >>

\* select! that consumes no tick when it takes the branch of interval.tick()
SelectTick_keeps_tick(j) ==
    /\ tasks[j] = "select"
    /\ due[j] > 0
    /\ runs[j] <= MaxPeriods + 1
    /\ tasks' = [tasks EXCEPT ![j] = "running"]
    /\ runs' = [runs EXCEPT ![j] = @ + 1]
    /\ active' = [active EXCEPT ![j] = @ + 1]
    /\ UNCHANGED << nonSchedVars, cancel_token, due, periods, sd, timeout_s, elapsed,
                    remaining, joinset, left, log, early >>

\* select! whose tick branch spawns the body instead of awaiting it: the next
\* tick is taken while the body still runs
SelectTick_spawns_body(j) ==
    /\ Alive(j)
    /\ due[j] > 0
    /\ due' = [due EXCEPT ![j] = @ - 1]
    /\ tasks' = [tasks EXCEPT ![j] = "running"]
    /\ runs' = [runs EXCEPT ![j] = @ + 1]
    /\ active' = [active EXCEPT ![j] = @ + 1]
    /\ UNCHANGED << nonSchedVars, cancel_token, periods, sd, timeout_s, elapsed, remaining,
                    joinset, left, log, early >>

\* a single loop that runs the jobs one after the other: a tick is taken only
\* while no other job is inside its body
SelectTick_one_loop(j) ==
    /\ tasks[j] = "select"
    /\ \A o \in Jobs \ {j} : tasks[o] # "running"
    /\ due[j] > 0
    /\ due' = [due EXCEPT ![j] = @ - 1]
    /\ tasks' = [tasks EXCEPT ![j] = "running"]
    /\ runs' = [runs EXCEPT ![j] = @ + 1]
    /\ active' = [active EXCEPT ![j] = @ + 1]
    /\ UNCHANGED << nonSchedVars, cancel_token, periods, sd, timeout_s, elapsed, remaining,
                    joinset, left, log, early >>

\* lines 40-43: select! takes the branch of interval.tick(), a branch that is
\* ready when a tick is due, and calls task(params.clone()). select! polls its
\* branches in random order, so with both branches ready either is taken
SelectTick(j) ==
    /\ tasks[j] = "select"
    /\ due[j] > 0
    /\ due' = [due EXCEPT ![j] = @ - 1]
    /\ tasks' = [tasks EXCEPT ![j] = "running"]
    /\ runs' = [runs EXCEPT ![j] = @ + 1]
    /\ active' = [active EXCEPT ![j] = @ + 1]
    /\ UNCHANGED << nonSchedVars, cancel_token, periods, sd, timeout_s, elapsed, remaining,
                    joinset, left, log, early >>

\* line 43: the task's future resolves to Ok(()); the loop goes on
TaskOk(j) ==
    /\ tasks[j] = "running"
    /\ tasks' = [tasks EXCEPT ![j] = "select"]
    /\ active' = [active EXCEPT ![j] = @ - 1]
    /\ UNCHANGED << nonSchedVars, cancel_token, due, periods, sd, timeout_s, elapsed,
                    remaining, joinset, left, log, runs, early >>

\* a loop that logs the error of the body and goes on to the next tick
TaskErr_goes_on(j) ==
    /\ tasks[j] = "running"
    /\ tasks' = [tasks EXCEPT ![j] = "select"]
    /\ log' = Append(log, [msg |-> "failed", name |-> j])
    /\ active' = [active EXCEPT ![j] = @ - 1]
    /\ UNCHANGED << nonSchedVars, cancel_token, due, periods, sd, timeout_s, elapsed,
                    remaining, joinset, left, runs, early >>

\* lines 43-46: the task's future resolves to Err(e); "Task {name} failed" is
\* logged and the job's task returns (name, Err(e))
TaskErr(j) ==
    /\ tasks[j] = "running"
    /\ tasks' = [tasks EXCEPT ![j] = "err"]
    /\ log' = Append(log, [msg |-> "failed", name |-> j])
    /\ active' = [active EXCEPT ![j] = @ - 1]
    /\ early' = IF BeforeDeadline THEN early \cup {j} ELSE early
    /\ UNCHANGED << nonSchedVars, cancel_token, due, periods, sd, timeout_s, elapsed,
                    remaining, joinset, left, runs >>

\* shutdown, lines 59-61: self.cancel_token.cancel(); the deadline is
\* timeout_s seconds from now
shutdown ==
    /\ sd = "none"
    /\ \E t \in 0..MaxTimeout : timeout_s' = t
    /\ cancel_token' = TRUE
    /\ elapsed' = 0
    /\ sd' = "loop"
    /\ UNCHANGED << nonSchedVars, tasks, due, periods, remaining, joinset, left, log, runs,
                    active, early >>

\* the loop head that waits a full timeout_s for every join
SdLoop_full_timeout ==
    /\ sd = "loop"
    /\ IF joinset = {} \/ timeout_s = 0
       THEN /\ sd' = "returned"
            /\ left' = {j \in joinset : Alive(j)}
            /\ UNCHANGED remaining
       ELSE /\ sd' = "wait"
            /\ remaining' = timeout_s
            /\ UNCHANGED left
    /\ UNCHANGED << nonSchedVars, cancel_token, tasks, due, periods, timeout_s, elapsed,
                    joinset, log, runs, active, early >>

\* lines 64-69 and 88-89: the loop ends when the JoinSet is empty or no time
\* remains, and shutdown returns; otherwise line 70 waits for the next join for
\* at most the remaining time
SdLoop ==
    /\ sd = "loop"
    /\ IF joinset = {} \/ Max(timeout_s - elapsed, 0) = 0
       THEN /\ sd' = "returned"
            /\ left' = {j \in joinset : Alive(j)}
            /\ UNCHANGED remaining
       ELSE /\ sd' = "wait"
            /\ remaining' = Max(timeout_s - elapsed, 0)
            /\ UNCHANGED left
    /\ UNCHANGED << nonSchedVars, cancel_token, tasks, due, periods, timeout_s, elapsed,
                    joinset, log, runs, active, early >>

\* line 70: a second passes while shutdown waits in time::timeout(remaining, ..)
\* and no job has exited; the timer resolves when the remaining time is over
SecondPasses ==
    /\ sd = "wait"
    /\ remaining > 0
    /\ \A j \in joinset : ~Exited(j)
    /\ elapsed' = elapsed + 1
    /\ remaining' = remaining - 1
    /\ UNCHANGED << nonSchedVars, cancel_token, tasks, due, periods, sd, timeout_s, joinset,
                    left, log, runs, active, early >>

\* lines 70-77: join_next() yields an exited job, which leaves the JoinSet;
\* its outcome is logged under its name
SdJoin(j) ==
    /\ sd = "wait"
    /\ j \in joinset
    /\ Exited(j)
    /\ joinset' = joinset \ {j}
    /\ log' = Append(log, [msg |-> IF tasks[j] = "ok" THEN "finished" ELSE "error",
                           name |-> j])
    /\ sd' = "loop"
    /\ UNCHANGED << nonSchedVars, cancel_token, tasks, due, periods, timeout_s, elapsed,
                    remaining, left, runs, active, early >>

\* lines 84-86: the timer of time::timeout resolves first (the join is polled
\* before the timer): "Scheduler timed out when shutting down", under no name
SdTimeout ==
    /\ sd = "wait"
    /\ remaining = 0
    /\ \A j \in joinset : ~Exited(j)
    /\ log' = Append(log, [msg |-> "timed out", name |-> 0])
    /\ sd' = "loop"
    /\ UNCHANGED << nonSchedVars, cancel_token, tasks, due, periods, timeout_s, elapsed,
                    remaining, joinset, left, runs, active, early >>

\* line 58 takes self by value: when shutdown returns the Scheduler and its
\* JoinSet are dropped, and dropping a JoinSet aborts every task still in it.
\* The task is cancelled at its next yield point: in select!, or at an .await
\* inside the body (a body that reaches no yield point completes: TaskOk,
\* TaskErr stay enabled)
Abort(j) ==
    /\ sd = "returned"
    /\ j \in joinset
    /\ Alive(j)
    /\ tasks' = [tasks EXCEPT ![j] = "aborted"]
    /\ active' = [active EXCEPT ![j] = 0]
    /\ UNCHANGED << nonSchedVars, cancel_token, due, periods, sd, timeout_s, elapsed,
                    remaining, joinset, left, log, runs, early >>

SchedNext ==
    \/ \E j \in Jobs : spawn_task(j)
    \/ \E j \in Jobs : PeriodElapses(j)
    \/ \E j \in Jobs : SelectCancelled(j)
    \/ \E j \in Jobs : SelectTick(j)
    \/ \E j \in Jobs : TaskOk(j)
    \/ \E j \in Jobs : TaskErr(j)
    \/ shutdown
    \/ SdLoop
    \/ SecondPasses
    \/ \E j \in Jobs : SdJoin(j)
    \/ SdTimeout
    \/ \E j \in Jobs : Abort(j)

SchedSpec == Init /\ [][SchedNext]_vars

\* every job's task is polled by the runtime when its select! has a ready
\* branch; nothing is assumed about a body ever returning
SchedFairSpec ==
    /\ Init
    /\ [][SchedNext]_vars
    /\ \A j \in Jobs : WF_vars(SelectTick(j) \/ SelectCancelled(j))

\* The threads running record_hit are scheduled fairly, a successful
\* compare_exchange_weak is not starved by spurious failures, and the flusher
\* task, once started, is polled until its cycle returns (every durable write
\* completes or fails).
HandlerProgress(p) ==
    LoadMap(p) \/ Entry(p) \/ FetchAdd(p) \/ LoadLast(p) \/ CasLoopExit(p) \/ CasOk(p)

FlusherProgress ==
    \/ IsEmpty
    \/ IterAdvance
    \/ \E k \in EntityKey : IterEntry(k)
    \/ FlushLinkChunk
    \/ FlushCollectionChunk
    \/ FlushRestLink
    \/ FlushRestCollection

\* the same steps, at most MaxLiveSwaps flush cycles
LiveNext ==
    \/ Tick
    \/ \E p \in Procs : RecordHitStep(p)
    \/ current < MaxLiveSwaps /\ StartCycle
    \/ FlusherProgress
    \/ FlushError

FairSpec ==
    /\ Init
    /\ [][LiveNext]_vars
    /\ \A p \in Procs : WF_vars(HandlerProgress(p))
    /\ WF_vars(FlusherProgress)

\* ------------------------------------------------ create_partitions_task
\* Gregorian calendar date of day number z (days since 1970-01-01), as the
\* time crate's Date holds it and PostgreSQL's date reads it
civil_from_days(z) ==
    LET zz == z + 719468
        era == zz \div 146097
        doe == zz - era * 146097
        yoe == (doe - doe \div 1460 + doe \div 36524 - doe \div 146096) \div 365
        doy == doe - (365 * yoe + yoe \div 4 - yoe \div 100)
        mp == (5 * doy + 2) \div 153
        d == doy - (153 * mp + 2) \div 5 + 1
        m == IF mp < 10 THEN mp + 3 ELSE mp - 9
        y == yoe + era * 400 + (IF m <= 2 THEN 1 ELSE 0)
    IN  [year |-> y, month |-> m, day |-> d]

\* the day number of a calendar date: PostgreSQL's date input
days_from_civil(c) ==
    LET y == c.year - (IF c.month <= 2 THEN 1 ELSE 0)
        era == y \div 400
        yoe == y - era * 400
        mp == IF c.month > 2 THEN c.month - 3 ELSE c.month + 9
        doy == (153 * mp + 2) \div 5 + c.day - 1
        doe == yoe * 365 + yoe \div 4 - yoe \div 100 + doy
    IN  era * 146097 + doe - 719468

\* n written with w decimal digits, zero padded
RECURSIVE Digits(_, _)
Digits(n, w) == IF w = 0 THEN << >> ELSE Append(Digits(n \div 10, w - 1), n % 10)

\* a partition suffix without the day of the month, "[year][month]"
PartNameDate_year_month(z) ==
    LET c == civil_from_days(z)
    IN  Digits(c.year, 4) \o Digits(c.month, 2)

\* Date::format(&PART_NAME_DATE_FD), "[year][month][day]"
PartNameDate(z) ==
    LET c == civil_from_days(z)
    IN  Digits(c.year, 4) \o Digits(c.month, 2) \o Digits(c.day, 2)

\* Date::format(&ISO_DATE_FD), "[year]-[month]-[day]"
IsoDate(z) ==
    LET c == civil_from_days(z)
    IN  Digits(c.year, 4) \o << "-" >> \o Digits(c.month, 2) \o << "-" >> \o Digits(c.day, 2)

\* the number a run of decimal digits denotes
RECURSIVE Number(_)
Number(ds) == IF ds = << >> THEN 0 ELSE 10 * Number(SubSeq(ds, 1, Len(ds) - 1)) + ds[Len(ds)]

\* PostgreSQL reading the literal 'YYYY-MM-DD' of a partition bound
ParseIsoDate(s) ==
    days_from_civil([year |-> Number(SubSeq(s, 1, 4)),
                     month |-> Number(SubSeq(s, 6, 7)),
                     day |-> Number(SubSeq(s, 9, 10))])

\* a loop over today only
Offsets_today_only == 0..0

\* line 283: for offset in 0..=3
Offsets == 0..3

MetricTables == {"daily_metrics", "collection_metrics"}

\* the statements one tick issues: (offset, table)
AllStatements == Offsets \X MetricTables

\* lines 293-302, 306-315: the partition a statement names, of table t for
\* the day start: daily_metrics_{suffix} FROM ('{from}') TO ('{to}')
Partition(t, start) ==
    [tbl |-> t,
     name |-> PartNameDate(start),
     from |-> ParseIsoDate(IsoDate(start)),
     to |-> ParseIsoDate(IsoDate(start + 1))]

Overlap(p, q) == p.tbl = q.tbl /\ p.from < q.to /\ q.from < p.to

\* CREATE TABLE that fails when the relation exists
CreateTable(ps, p) ==
    IF \E q \in ps : q.tbl = p.tbl /\ q.name = p.name
    THEN [ok |-> FALSE, parts |-> ps]
    ELSE IF \E q \in ps : Overlap(p, q)
    THEN [ok |-> FALSE, parts |-> ps]
    ELSE [ok |-> TRUE, parts |-> ps \cup {p}]

\* CREATE TABLE IF NOT EXISTS .. PARTITION OF .. FOR VALUES FROM .. TO ..:
\* skipped when a relation of that name exists, an error when the range
\* overlaps another partition of the table
CreateTableIfNotExists(ps, p) ==
    IF \E q \in ps : q.tbl = p.tbl /\ q.name = p.name
    THEN [ok |-> TRUE, parts |-> ps]
    ELSE IF \E q \in ps : Overlap(p, q)
    THEN [ok |-> FALSE, parts |-> ps]
    ELSE [ok |-> TRUE, parts |-> ps \cup {p}]

\* the server's date moves to the next day; the day that ends was starved if
\* the job has returned Ok but not for this date, or if the tick now running
\* read an earlier date
DayChange ==
    /\ today < StartDay + MaxDayChanges
    /\ today' = today + 1
    /\ starved' = (\/ starved
                   \/ (okDay # NoDay /\ okDay # today)
                   \/ (ppc # "idle" /\ p_today # today))
    /\ UNCHANGED << metricsVars, schedVars, laterVars, parts, ppc, p_today, offset, pstmt, issued,
                    presult, okDay, okParts, okRuns, pfailed, missing, lastWrite >>

\* lines 278-280: SELECT CURRENT_DATE
PartStart ==
    /\ ppc = "idle"
    /\ okDay # today \/ okRuns < MaxOkRuns
    /\ ppc' = "loop"
    /\ p_today' = today
    /\ offset' = 0
    /\ pstmt' = "daily_metrics"
    /\ issued' = {}
    /\ presult' = "none"
    /\ UNCHANGED << metricsVars, schedVars, laterVars, today, parts, okDay, okParts, okRuns, pfailed,
                    starved, missing, lastWrite >>

\* the tick returns with result r
PartEnd(r) ==
    /\ ppc' = "idle"
    /\ presult' = r
    /\ offset' = 0
    /\ pstmt' = "daily_metrics"
    /\ pfailed' = (pfailed \/ r # "ok")
    /\ IF r # "ok"
       THEN UNCHANGED << okDay, okParts, okRuns >>
       ELSE /\ okDay' = p_today
            /\ okRuns' = IF okDay = p_today THEN okRuns + 1 ELSE 1
            /\ okParts' = IF okDay = p_today THEN okParts ELSE parts'

\* lines 284-316: the next statement of the loop is executed and succeeds;
\* after the last one line 319 returns Ok(())
PartStmt ==
    /\ ppc = "loop"
    /\ LET r == CreateTableIfNotExists(parts, Partition(pstmt, p_today + offset))
       IN  /\ issued' = issued \cup {<< offset, pstmt >>}
           /\ parts' = r.parts
           /\ IF ~r.ok
              THEN PartEnd("conflict")
              ELSE IF pstmt = "daily_metrics"
              THEN /\ pstmt' = "collection_metrics"
                   /\ UNCHANGED << ppc, offset, presult, okDay, okParts, okRuns, pfailed >>
              ELSE IF offset + 1 \in Offsets
              THEN /\ pstmt' = "daily_metrics"
                   /\ offset' = offset + 1
                   /\ UNCHANGED << ppc, presult, okDay, okParts, okRuns, pfailed >>
              ELSE PartEnd("ok")
    /\ UNCHANGED << metricsVars, schedVars, laterVars, today, p_today, starved, missing, lastWrite >>

\* lines 303, 316: the statement fails in the database (connection, lock,
\* disk) and `?` returns the error from the task
PartStmtFail ==
    /\ ppc = "loop"
    /\ issued' = issued \cup {<< offset, pstmt >>}
    /\ PartEnd("db_error")
    /\ UNCHANGED << metricsVars, schedVars, laterVars, today, parts, p_today, starved, missing,
                    lastWrite >>

\* flush_to_db / flush_collection_to_db, lines 176-195 and 230-249: the
\* INSERT of rows with day = CURRENT_DATE needs a partition of table t that
\* holds today
FlushWrite(t) ==
    /\ okDay # NoDay
    /\ IF \E p \in parts : p.tbl = t /\ p.from <= today /\ today < p.to
       THEN lastWrite' = today /\ UNCHANGED missing
       ELSE missing' = TRUE /\ UNCHANGED lastWrite
    /\ UNCHANGED << metricsVars, schedVars, laterVars, today, parts, ppc, p_today, offset, pstmt,
                    issued, presult, okDay, okParts, okRuns, pfailed, starved >>

PartNext ==
    \/ DayChange
    \/ PartStart
    \/ PartStmt
    \/ PartStmtFail
    \/ \E t \in MetricTables : FlushWrite(t)

PartSpec == Init /\ [][PartNext]_vars

\* ------------------------------------------------ fetch_link and the cache
\* query_url_by_alias, links.rs:142-159: Ok(Some(CachedLink)) when links_main
\* has a row for the alias, Ok(None) when it has none
query_url_by_alias(a) == [alias |-> a, found |-> links[a]]

\* a link is inserted into or deleted from links_main
DbChange(a) ==
    /\ dbChanges < MaxDbChanges
    /\ dbChanges' = dbChanges + 1
    /\ links' = [links EXCEPT ![a] = ~@]
    /\ UNCHANGED << metricsVars, schedVars, partVars, restVars, cache, inflight, lookups,
                    cachedAt, lastRes, evicted, cpc, calias, cres, flight, gets >>

\* a lookup that does not join the lookup in flight for its alias
Get_no_coalescing(c, a) ==
    /\ cpc[c] = "idle"
    /\ gets < MaxGets
    /\ gets' = gets + 1
    /\ calias' = [calias EXCEPT ![c] = a]
    /\ IF cache[a] # Absent
       THEN /\ cpc' = [cpc EXCEPT ![c] = "hit"]
            /\ cres' = [cres EXCEPT ![c] = cache[a]]
            /\ flight' = [flight EXCEPT ![c] = 0]
            /\ UNCHANGED << inflight, lookups >>
       ELSE /\ cpc' = [cpc EXCEPT ![c] = "waiting"]
            /\ cres' = [cres EXCEPT ![c] = Absent]
            /\ lookups' = [lookups EXCEPT ![a] = @ + 1]
            /\ inflight' = [inflight EXCEPT ![a] = @ + 1]
            /\ flight' = [flight EXCEPT ![c] = lookups[a] + 1]
    /\ UNCHANGED << metricsVars, schedVars, partVars, restVars, cache, cachedAt, lastRes,
                    evicted, links, dbChanges >>

\* core.rs:46-49, general.rs:58-63: cache.try_get_with(alias, init). A live
\* entry is returned at once; otherwise the caller joins the lookup in flight
\* for the alias, or, when there is none, starts init (query_url_by_alias)
Get(c, a) ==
    /\ cpc[c] = "idle"
    /\ gets < MaxGets
    /\ gets' = gets + 1
    /\ calias' = [calias EXCEPT ![c] = a]
    /\ IF cache[a] # Absent
       THEN /\ cpc' = [cpc EXCEPT ![c] = "hit"]
            /\ cres' = [cres EXCEPT ![c] = cache[a]]
            /\ flight' = [flight EXCEPT ![c] = 0]
            /\ UNCHANGED << inflight, lookups >>
       ELSE /\ cpc' = [cpc EXCEPT ![c] = "waiting"]
            /\ cres' = [cres EXCEPT ![c] = Absent]
            /\ IF inflight[a] > 0
               THEN /\ flight' = [flight EXCEPT ![c] = lookups[a]]
                    /\ UNCHANGED << inflight, lookups >>
               ELSE /\ lookups' = [lookups EXCEPT ![a] = @ + 1]
                    /\ inflight' = [inflight EXCEPT ![a] = @ + 1]
                    /\ flight' = [flight EXCEPT ![c] = lookups[a] + 1]
    /\ UNCHANGED << metricsVars, schedVars, partVars, restVars, cache, cachedAt, lastRes,
                    evicted, links, dbChanges >>

\* the callers waiting for the lookup now in flight for alias a
Coalesced(a) == {c \in Callers : cpc[c] = "waiting" /\ calias[c] = a /\ flight[c] = lookups[a]}

\* the lookup in flight for a resolves to r: every caller waiting on it gets r
Deliver(a, r) ==
    /\ inflight' = [inflight EXCEPT ![a] = @ - 1]
    /\ lastRes' = [lastRes EXCEPT ![a] = r]
    /\ cpc' = [c \in Callers |-> IF c \in Coalesced(a) THEN "done" ELSE cpc[c]]
    /\ cres' = [c \in Callers |-> IF c \in Coalesced(a) THEN r ELSE cres[c]]

\* a cache that stores only the links it found
LookupOk_skips_none(a) ==
    /\ inflight[a] > 0
    /\ Deliver(a, query_url_by_alias(a))
    /\ IF links[a]
       THEN /\ cache' = [cache EXCEPT ![a] = query_url_by_alias(a)]
            /\ cachedAt' = [cachedAt EXCEPT ![a] = lookups[a]]
       ELSE UNCHANGED << cache, cachedAt >>
    /\ evicted' = [evicted EXCEPT ![a] = FALSE]
    /\ UNCHANGED << metricsVars, schedVars, partVars, restVars, lookups, calias, flight,
                    gets, links, dbChanges >>

\* core.rs:48: init resolves to Ok(v), v being Some(link) or None; the value is
\* inserted into the cache and handed to every waiting caller
LookupOk(a) ==
    /\ inflight[a] > 0
    /\ Deliver(a, query_url_by_alias(a))
    /\ cache' = [cache EXCEPT ![a] = query_url_by_alias(a)]
    /\ cachedAt' = [cachedAt EXCEPT ![a] = lookups[a]]
    /\ evicted' = [evicted EXCEPT ![a] = FALSE]
    /\ UNCHANGED << metricsVars, schedVars, partVars, restVars, lookups, calias, flight,
                    gets, links, dbChanges >>

\* a cache that stores not-found for an alias whose lookup failed
LookupErr_caches(a) ==
    /\ inflight[a] > 0
    /\ Deliver(a, CacheErr)
    /\ cache' = [cache EXCEPT ![a] = [alias |-> a, found |-> FALSE]]
    /\ cachedAt' = [cachedAt EXCEPT ![a] = lookups[a]]
    /\ evicted' = [evicted EXCEPT ![a] = FALSE]
    /\ UNCHANGED << metricsVars, schedVars, partVars, restVars, lookups, calias, flight,
                    gets, links, dbChanges >>

\* core.rs:48-53: init resolves to Err(ServiceError): nothing is inserted and
\* every waiting caller gets the error, mapped to ApiError::internal()
LookupErr(a) ==
    /\ inflight[a] > 0
    /\ Deliver(a, CacheErr)
    /\ evicted' = [evicted EXCEPT ![a] = FALSE]
    /\ UNCHANGED << metricsVars, schedVars, partVars, restVars, cache, cachedAt, lookups,
                    calias, flight, gets, links, dbChanges >>

\* the entry of alias a reaches the end of its lifetime and is evicted
Expire(a) ==
    /\ cache[a] # Absent
    /\ cache' = [cache EXCEPT ![a] = Absent]
    /\ evicted' = [evicted EXCEPT ![a] = TRUE]
    /\ UNCHANGED << metricsVars, schedVars, partVars, restVars, inflight, lookups, cachedAt,
                    lastRes, cpc, calias, cres, flight, gets, links, dbChanges >>

\* fetch_link returns to its caller, lines 55-66
Return(c) ==
    /\ cpc[c] \in {"hit", "done"}
    /\ cpc' = [cpc EXCEPT ![c] = "idle"]
    /\ UNCHANGED << metricsVars, schedVars, partVars, restVars, cache, inflight, lookups,
                    cachedAt, lastRes, evicted, calias, cres, flight, gets, links, dbChanges >>

CacheNext ==
    \/ \E a \in Aliases : DbChange(a)
    \/ \E c \in Callers : \E a \in Aliases : Get(c, a)
    \/ \E a \in Aliases : LookupOk(a)
    \/ \E a \in Aliases : LookupErr(a)
    \/ \E a \in Aliases : Expire(a)
    \/ \E c \in Callers : Return(c)

CacheSpec == Init /\ [][CacheNext]_vars

\* ------------------------------------------------ two durable writes
\* the rows one flush statement can write: (day, id, hits, last_access)
UpsertDays == {StartDay, StartDay + 1}

Writes ==
    [day : UpsertDays, id : 1..MaxLinkId, hits : 1..MaxHits, last_access : 0..MaxStamp]

\* the upsert of the one row w, link_metrics.rs:176-195
Write(rows, w) == UpsertRow(rows, w.day, w.id, w.hits, w.last_access)

\* an earlier flush left a row in the table
UpsertSeed(w) ==
    /\ ustep = 0
    /\ writes = << >>
    /\ << w.day, w.id >> \notin DOMAIN base
    /\ Cardinality(DOMAIN base) < MaxBase
    /\ base' = Write(base, w)
    /\ urows' = base'
    /\ rrows' = base'
    /\ UNCHANGED << finalVars, metricsVars, schedVars, partVars, cacheVars, cleanVars, maintVars,
                    writes, ustep >>

\* two chunks are about to be written
UpsertPick(w1, w2) ==
    /\ ustep = 0
    /\ writes = << >>
    /\ writes' = << w1, w2 >>
    /\ UNCHANGED << finalVars, metricsVars, schedVars, partVars, cacheVars, cleanVars, maintVars,
                    base, urows, rrows, ustep >>

\* the next write commits: urows takes the writes in order, rrows in the
\* opposite order
UpsertWrite ==
    /\ writes # << >>
    /\ ustep < 2
    /\ urows' = Write(urows, writes[ustep + 1])
    /\ rrows' = Write(rrows, writes[2 - ustep])
    /\ ustep' = ustep + 1
    /\ UNCHANGED << finalVars, metricsVars, schedVars, partVars, cacheVars, cleanVars, maintVars,
                    base, writes >>

UpsertNext ==
    \/ \E w \in Writes : UpsertSeed(w)
    \/ \E w1, w2 \in Writes : UpsertPick(w1, w2)
    \/ UpsertWrite

UpsertSpec == Init /\ [][UpsertNext]_vars

\* ------------------------------------------------ link_cleanup_task
\* last_seen of the links in links_main before the task runs
LastSeens == {StartDay - TTI_DAYS - 1, StartDay - TTI_DAYS, StartDay}

\* WHERE last_seen < (CURRENT_DATE - $1::int), lines 18-20
Expired(rows, day) == {id \in DOMAIN rows : rows[id] < day - TTI_DAYS}

\* ORDER BY id LIMIT n, lines 21-22
FirstIds(S, n) == {x \in S : Cardinality({y \in S : y < x}) < n}

\* a link is created; ids are serial
LinkCreate(ls) ==
    /\ lpc = "idle"
    /\ Cardinality(DOMAIN links_main) < MaxRows
    /\ links_main' = [x \in DOMAIN links_main \cup {Cardinality(DOMAIN links_main) + 1} |->
                          IF x \in DOMAIN links_main THEN links_main[x] ELSE ls]
    /\ UNCHANGED << finalVars, metricsVars, schedVars, partVars, cacheVars, upsertVars, maintVars,
                    lpc, entries_deleted, lstart, lcutoff, lseen >>

\* link_cleanup_task is called, lines 9-13
CleanStart ==
    /\ lpc = "idle"
    /\ lpc' = "loop"
    /\ entries_deleted' = 0
    /\ lstart' = links_main
    /\ UNCHANGED << finalVars, metricsVars, schedVars, partVars, cacheVars, upsertVars, maintVars,
                    links_main, lcutoff, lseen >>

\* a task that runs its statement once
CleanBatch_one_statement ==
    /\ lpc = "loop"
    /\ LET del == FirstIds(Expired(links_main, today), BATCH_SIZE)
       IN  /\ links_main' = [x \in DOMAIN links_main \ del |-> links_main[x]]
           /\ entries_deleted' = entries_deleted + Cardinality(del)
           /\ lpc' = "done"
    /\ lcutoff' = today - TTI_DAYS
    /\ UNCHANGED << finalVars, metricsVars, schedVars, partVars, cacheVars, upsertVars, maintVars,
                    lstart, lseen >>

\* one turn of the loop, lines 14-44: the statement deletes the first
\* BATCH_SIZE expired links, and the loop ends after a batch that is not full
CleanBatch ==
    /\ lpc = "loop"
    /\ LET del == FirstIds(Expired(links_main, today), BATCH_SIZE)
       IN  /\ links_main' = [x \in DOMAIN links_main \ del |-> links_main[x]]
           /\ entries_deleted' = entries_deleted + Cardinality(del)
           /\ lpc' = IF Cardinality(del) < BATCH_SIZE THEN "done" ELSE "loop"
    /\ lcutoff' = today - TTI_DAYS
    /\ UNCHANGED << finalVars, metricsVars, schedVars, partVars, cacheVars, upsertVars, maintVars,
                    lstart, lseen >>

\* the statement fails, lines 36-37: fetch_one(..).await? returns the error
CleanBatchFail ==
    /\ lpc = "loop"
    /\ lpc' = "failed"
    /\ UNCHANGED << finalVars, metricsVars, schedVars, partVars, cacheVars, upsertVars, maintVars,
                    links_main, entries_deleted, lstart, lcutoff, lseen >>

\* a flush commits while the task runs, link_metrics.rs:197-214:
\* UPDATE links_main SET last_seen = CURRENT_DATE for a link that was hit
LinkSeen(id) ==
    /\ lpc = "loop"
    /\ lseen < MaxSeen
    /\ id \in DOMAIN links_main
    /\ links_main[id] < today
    /\ links_main' = [links_main EXCEPT ![id] = today]
    /\ lseen' = lseen + 1
    /\ UNCHANGED << finalVars, metricsVars, schedVars, partVars, cacheVars, upsertVars, maintVars,
                    lpc, entries_deleted, lstart, lcutoff >>

CleanNext ==
    \/ \E ls \in LastSeens : LinkCreate(ls)
    \/ CleanStart
    \/ CleanBatch
    \/ CleanBatchFail
    \/ \E id \in 1..MaxRows : LinkSeen(id)
    \/ DayChange

CleanSpec == Init /\ [][CleanNext]_vars

\* the task is polled until it returns
CleanFairSpec == CleanSpec /\ WF_vars(CleanBatch)

\* ------------------------------------------------ CleanupUnusedLinksTask
\* last_accessed_at IS NULL
NoTime == 0 - 1

\* rows of the table links: created_at, and last_accessed_at NULL or later
LinkRows ==
    {r \in [created_at : 0..MaxNow, last_accessed_at : {NoTime} \cup 0..MaxNow] :
        r.last_accessed_at = NoTime \/ r.last_accessed_at >= r.created_at}

\* lines 51-55 and 70: now - days_unused * 24 * 60 * 60 in u64, bound as i64;
\* a u64 that wrapped below zero is the same negative i64
cutoff_time(now, days) == now - days * DaySecs

\* the WHERE clause of the DELETE, lines 64-67
Unused(rows, cutoff) ==
    {id \in DOMAIN rows :
        \/ rows[id].last_accessed_at = NoTime /\ rows[id].created_at < cutoff
        \/ rows[id].last_accessed_at # NoTime /\ rows[id].last_accessed_at < cutoff}

Executing == mpc \in {"delete", "invalidate"}

\* a link is created while no cleanup runs; ids are serial
MLinkCreate(r) ==
    /\ ~Executing
    /\ mexecs = 0
    /\ Cardinality(DOMAIN mlinks) < MaxLinks
    /\ mlinks' = [x \in DOMAIN mlinks \cup {Cardinality(DOMAIN mlinks) + 1} |->
                      IF x \in DOMAIN mlinks THEN mlinks[x] ELSE r]
    /\ UNCHANGED << finalVars, metricsVars, schedVars, partVars, cacheVars, upsertVars, cleanVars,
                    mpc, days_unused, deleted_count, cache_calls, mexecs, mbefore >>

\* execute is called on CleanupUnusedLinksTask::new(d), lines 38-48
MaintStart(d) ==
    /\ ~Executing
    /\ mexecs < MaxExecs
    /\ mexecs' = mexecs + 1
    /\ days_unused' = d
    /\ deleted_count' = 0
    /\ cache_calls' = << >>
    /\ mbefore' = mlinks
    /\ mpc' = "delete"
    /\ UNCHANGED << finalVars, metricsVars, schedVars, partVars, cacheVars, upsertVars, cleanVars,
                    mlinks >>

\* lines 51-53: duration_since(UNIX_EPOCH) fails for a clock before the epoch
MaintTimeErr ==
    /\ mpc = "delete"
    /\ mpc' = "time_failed"
    /\ UNCHANGED << finalVars, metricsVars, schedVars, partVars, cacheVars, upsertVars, cleanVars,
                    mlinks, days_unused, deleted_count, cache_calls, mexecs, mbefore >>

\* lines 54-55: the subtraction overflows u64 and the build checks overflow
MaintPanic(now) ==
    /\ mpc = "delete"
    /\ now < days_unused * DaySecs
    /\ mpc' = "panicked"
    /\ UNCHANGED << finalVars, metricsVars, schedVars, partVars, cacheVars, upsertVars, cleanVars,
                    mlinks, days_unused, deleted_count, cache_calls, mexecs, mbefore >>

\* a task that invalidates the cache after every delete statement
MaintDelete_always_invalidates(now) ==
    /\ mpc = "delete"
    /\ LET del == Unused(mlinks, cutoff_time(now, days_unused))
       IN  /\ mlinks' = [x \in DOMAIN mlinks \ del |-> mlinks[x]]
           /\ deleted_count' = Cardinality(del)
           /\ mpc' = "invalidate"
    /\ UNCHANGED << finalVars, metricsVars, schedVars, partVars, cacheVars, upsertVars, cleanVars,
                    days_unused, cache_calls, mexecs, mbefore >>

\* lines 51-87: the DELETE succeeds; deleted_count = rows_affected(), and the
\* task goes on to invalidate the cache only if deleted_count > 0
MaintDelete(now) ==
    /\ mpc = "delete"
    /\ LET del == Unused(mlinks, cutoff_time(now, days_unused))
       IN  /\ mlinks' = [x \in DOMAIN mlinks \ del |-> mlinks[x]]
           /\ deleted_count' = Cardinality(del)
           /\ mpc' = IF Cardinality(del) > 0 THEN "invalidate" ELSE "done"
    /\ UNCHANGED << finalVars, metricsVars, schedVars, partVars, cacheVars, upsertVars, cleanVars,
                    days_unused, cache_calls, mexecs, mbefore >>

\* lines 71-73: the DELETE fails, execute returns the error
MaintDeleteFail ==
    /\ mpc = "delete"
    /\ mpc' = "delete_failed"
    /\ UNCHANGED << finalVars, metricsVars, schedVars, partVars, cacheVars, upsertVars, cleanVars,
                    mlinks, days_unused, deleted_count, cache_calls, mexecs, mbefore >>

\* lines 84-89: cache.invalidate_all().await?, then Ok(())
MaintInvalidate(ok) ==
    /\ mpc = "invalidate"
    /\ cache_calls' = Append(cache_calls, "invalidate_all")
    /\ mpc' = IF ok THEN "done" ELSE "invalidate_failed"
    /\ UNCHANGED << finalVars, metricsVars, schedVars, partVars, cacheVars, upsertVars, cleanVars,
                    mlinks, days_unused, deleted_count, mexecs, mbefore >>

MaintNext ==
    \/ \E r \in LinkRows : MLinkCreate(r)
    \/ \E d \in 0..MaxUnused : MaintStart(d)
    \/ MaintTimeErr
    \/ \E now \in 0..MaxNow : MaintPanic(now)
    \/ \E now \in 0..MaxNow : MaintDelete(now)
    \/ MaintDeleteFail
    \/ \E ok \in BOOLEAN : MaintInvalidate(ok)

MaintSpec == Init /\ [][MaintNext]_vars

\* ------------------------------------------------ App::shorten_url
\* shorten_url is called on a Database that will fail the next n inserts
ShortenStart(n) ==
    /\ spc = "idle"
    /\ sresult = "none"
    /\ spc' = "generate"
    /\ attempt' = 0
    /\ insert_errors' = n
    /\ UNCHANGED << exceptShorten, sdata, salias, sresult, serrs, taken >>

\* another request stores alias a
OtherInsert(a) ==
    /\ spc \in {"generate", "insert"}
    /\ taken < MaxTaken
    /\ a \notin sdata
    /\ sdata' = sdata \cup {a}
    /\ taken' = taken + 1
    /\ UNCHANGED << exceptShorten, spc, attempt, salias, sresult, insert_errors, serrs >>

\* lines 42-47: the next iteration generates alias a and skips it if
\* get(alias) finds it
Generate(a) ==
    /\ spc = "generate"
    /\ attempt < MAX_RETRIES
    /\ attempt' = attempt + 1
    /\ salias' = a
    /\ spc' = IF a \in sdata THEN "generate" ELSE "insert"
    /\ UNCHANGED << exceptShorten, sdata, sresult, insert_errors, serrs, taken >>

\* lines 60-63: the loop ends after MAX_RETRIES iterations
Exhausted ==
    /\ spc = "generate"
    /\ attempt = MAX_RETRIES
    /\ spc' = "idle"
    /\ sresult' = "exhausted"
    /\ UNCHANGED << exceptShorten, sdata, attempt, salias, insert_errors, serrs, taken >>

\* lines 49-50: insert returns Ok(()), shorten_url returns Ok(alias)
InsertOk ==
    /\ spc = "insert"
    /\ insert_errors = 0
    /\ salias \notin sdata
    /\ sdata' = sdata \cup {salias}
    /\ spc' = "idle"
    /\ sresult' = "ok"
    /\ UNCHANGED << exceptShorten, attempt, salias, insert_errors, serrs, taken >>

\* a shorten_url that goes on to the next alias after every failed insert
InsertErr_retries ==
    /\ spc = "insert"
    /\ insert_errors > 0 \/ salias \in sdata
    /\ insert_errors' = IF insert_errors > 0 THEN insert_errors - 1 ELSE 0
    /\ serrs' = serrs + 1
    /\ spc' = "generate"
    /\ UNCHANGED sresult
    /\ UNCHANGED << exceptShorten, sdata, attempt, salias, taken >>

\* lines 51-56: insert returns Err(e), because the database fails or because the
\* alias was stored meanwhile; the loop goes on only if get(alias) now finds
\* the alias, otherwise shorten_url returns Err(e)
InsertErr ==
    /\ spc = "insert"
    /\ insert_errors > 0 \/ salias \in sdata
    /\ insert_errors' = IF insert_errors > 0 THEN insert_errors - 1 ELSE 0
    /\ serrs' = serrs + 1
    /\ IF salias \in sdata
       THEN spc' = "generate" /\ UNCHANGED sresult
       ELSE spc' = "idle" /\ sresult' = "err"
    /\ UNCHANGED << exceptShorten, sdata, attempt, salias, taken >>

ShortenNext ==
    \/ \E n \in 0..MaxInsertErrs : ShortenStart(n)
    \/ \E a \in Aliases : OtherInsert(a)
    \/ \E a \in Aliases : Generate(a)
    \/ Exhausted
    \/ InsertOk
    \/ InsertErr

ShortenSpec == Init /\ [][ShortenNext]_vars

\* ------------------------------------------------ the transaction of one chunk
\* last_seen of the parent rows the flushes find
TxDays == {StartDay - 1, StartDay, StartDay + 1}

\* the column slices process_batch_task hands over: ids of distinct entries, or
\* nothing at all
TxChunk(ids) ==
    [id |-> ids, hits |-> [i \in DOMAIN ids |-> 1], last_access |-> [i \in DOMAIN ids |-> 0]]

TxChunks ==
    {TxChunk(ids) : ids \in {<< >>} \cup {<< i >> : i \in 1..MaxLinkId}
                              \cup {ij \in (1..MaxLinkId) \X (1..MaxLinkId) : ij[1] # ij[2]}}

ChunkIds(cols) == {cols.id[i] : i \in DOMAIN cols.id}

\* an UPDATE that sets last_seen for every parent of the chunk
UpdateLastSeen_unconditional(parents, ids, day) ==
    [p \in DOMAIN parents |-> IF p \in ids THEN day ELSE parents[p]]

\* link_metrics.rs:197-212, 251-266: UPDATE ... SET last_seen = CURRENT_DATE
\* FROM ids WHERE id = ids.id AND last_seen < CURRENT_DATE
UpdateLastSeen(parents, ids, day) ==
    [p \in DOMAIN parents |-> IF p \in ids /\ parents[p] < day THEN day ELSE parents[p]]

\* a row of links_main or collections is there before the first flush
TxParent(kd, p, d) ==
    /\ tpc = "idle"
    /\ tflushes = 0
    /\ p \notin DOMAIN tdb.parents[kd]
    /\ tdb' = [tdb EXCEPT !.parents[kd] = [x \in DOMAIN @ \cup {p} |-> IF x = p THEN d ELSE @[x]]]
    /\ ttx' = tdb'
    /\ tbefore' = tdb'
    /\ UNCHANGED << exceptTx, tpc, tkind, tcols, tday, tfailed, tflushes >>

\* flush_to_db (kd = "Link") or flush_collection_to_db is called, lines 164-174
\* and 218-228: an empty chunk returns Ok at once
TxCall(kd, cols) ==
    /\ tpc = "idle"
    /\ tflushes < MaxFlushes
    /\ tflushes' = tflushes + 1
    /\ tkind' = kd
    /\ tcols' = cols
    /\ tbefore' = tdb
    /\ tfailed' = "none"
    /\ tpc' = IF Len(cols.id) = 0 THEN "ok" ELSE "begin"
    /\ UNCHANGED << exceptTx, tdb, ttx, tday >>

\* pool.begin(), line 175: the transaction starts from the committed rows and
\* CURRENT_DATE is the date of its start
TxBegin ==
    /\ tpc = "begin"
    /\ tpc' = "upsert"
    /\ ttx' = tdb
    /\ tday' = today
    /\ UNCHANGED << exceptTx, tdb, tkind, tcols, tbefore, tfailed, tflushes >>

\* an upsert run on the pool, outside the transaction
TxUpsert_autocommit ==
    /\ tpc = "upsert"
    /\ tpc' = "update"
    /\ ttx' = [ttx EXCEPT !.metrics[tkind] = UpsertFrom(@, tday, tcols, 1)]
    /\ tdb' = [tdb EXCEPT !.metrics[tkind] = UpsertFrom(@, tday, tcols, 1)]
    /\ UNCHANGED << exceptTx, tkind, tcols, tday, tbefore, tfailed, tflushes >>

\* the upsert of lines 176-195 (238-249), executed on the transaction
TxUpsert ==
    /\ tpc = "upsert"
    /\ tpc' = "update"
    /\ ttx' = [ttx EXCEPT !.metrics[tkind] = UpsertFrom(@, tday, tcols, 1)]
    /\ UNCHANGED << exceptTx, tdb, tkind, tcols, tday, tbefore, tfailed, tflushes >>

\* the UPDATE of lines 197-212 (251-266), executed on the transaction
TxUpdate ==
    /\ tpc = "update"
    /\ tpc' = "commit"
    /\ ttx' = [ttx EXCEPT !.parents[tkind] = UpdateLastSeen(@, ChunkIds(tcols), tday)]
    /\ UNCHANGED << exceptTx, tdb, tkind, tcols, tday, tbefore, tfailed, tflushes >>

\* begin or one of the two statements fails: `?` returns the error and the
\* dropped transaction is rolled back
TxFail ==
    /\ tpc \in {"begin", "upsert", "update"}
    /\ tfailed' = tpc
    /\ tpc' = "err"
    /\ ttx' = tdb
    /\ UNCHANGED << exceptTx, tdb, tkind, tcols, tday, tbefore, tflushes >>

\* tx.commit() succeeds, line 214: what the transaction wrote becomes visible
TxCommit ==
    /\ tpc = "commit"
    /\ tpc' = "ok"
    /\ tdb' = ttx
    /\ UNCHANGED << exceptTx, ttx, tkind, tcols, tday, tbefore, tfailed, tflushes >>

\* tx.commit() returns an error: the server has either rolled the transaction
\* back or committed it before the connection failed
TxCommitFail ==
    /\ tpc = "commit"
    /\ tfailed' = "commit"
    /\ tpc' = "err"
    /\ \E d \in {tdb, ttx} : tdb' = d /\ ttx' = d
    /\ UNCHANGED << exceptTx, tkind, tcols, tday, tbefore, tflushes >>

\* the function has returned to process_batch_task
TxReturn ==
    /\ tpc \in {"ok", "err"}
    /\ tpc' = "idle"
    /\ UNCHANGED << exceptTx, tdb, ttx, tkind, tcols, tday, tbefore, tfailed, tflushes >>

TxNext ==
    \/ \E kd \in Kinds : \E p \in 1..MaxLinkId : \E d \in TxDays : TxParent(kd, p, d)
    \/ \E kd \in Kinds : \E cols \in TxChunks : TxCall(kd, cols)
    \/ TxBegin
    \/ TxUpsert
    \/ TxUpdate
    \/ TxFail
    \/ TxCommit
    \/ TxCommitFail
    \/ TxReturn

TxSpec == Init /\ [][TxNext]_vars

\* ------------------------------------------------ flush_metrics::process_batch
\* a last_access_s that OffsetDateTime::from_unix_timestamp rejects
BadSeconds == 2932896 + 1

\* the entries a drained table may hold: hits 0 or 1, last access convertible or not
QEntries == [hits : 0..1, last_access_s : {0, BadSeconds}]

\* the drained tables, as map.iter() yields them; entry i has link id i
QMaps == UNION {[1..n -> QEntries] : n \in 0..MaxEntries}

\* flush_metrics.rs:79-88 and 90-110: what a call of flush_to_db does with the
\* columns it is given: nothing for no ids, a panic of the assert! when the
\* lengths differ, else the upsert
flush_call(ids, hits, las) ==
    IF Len(ids) = 0 THEN "ok"
    ELSE IF ~(Len(ids) = Len(hits) /\ Len(hits) = Len(las)) THEN "panic"
    ELSE "upsert"

\* run, lines 19-20, and process_batch, lines 26-36: an empty table returns
\* Ok(()), else the columns are created empty
BatchStart(m) ==
    /\ qpc = "idle"
    /\ qcycles < MaxCycles
    /\ qcycles' = qcycles + 1
    /\ qmap' = m
    /\ qi' = 1
    /\ IF Len(m) = 0
       THEN UNCHANGED << qpc, link_id_col, hits_col, last_access_col, entries_updated >>
       ELSE /\ qpc' = "iter"
            /\ link_id_col' = << >>
            /\ hits_col' = << >>
            /\ last_access_col' = << >>
            /\ entries_updated' = 0
    /\ UNCHANGED << exceptBatch, qerrs >>

\* a loop body that pushes the id first and skips an entry whose last access
\* does not convert
BatchEntry_pushes_id_first ==
    /\ qpc = "iter"
    /\ qi <= Len(qmap)
    /\ IF qmap[qi].hits = 0
       THEN /\ qi' = qi + 1
            /\ UNCHANGED << qpc, link_id_col >>
       ELSE IF ~from_unix_timestamp(qmap[qi].last_access_s).ok
       THEN /\ link_id_col' = Append(link_id_col, qi)
            /\ qi' = qi + 1
            /\ UNCHANGED qpc
       ELSE /\ qpc' = "push_id"
            /\ UNCHANGED << qi, link_id_col >>
    /\ UNCHANGED << exceptBatch, qmap, hits_col, last_access_col, entries_updated,
                    qcycles, qerrs >>

\* lines 38-49: the next entry; one without hits is skipped, one whose last
\* access does not convert ends the call with Err
BatchEntry ==
    /\ qpc = "iter"
    /\ qi <= Len(qmap)
    /\ IF qmap[qi].hits = 0
       THEN /\ qi' = qi + 1
            /\ UNCHANGED << qpc, qerrs >>
       ELSE IF ~from_unix_timestamp(qmap[qi].last_access_s).ok
       THEN /\ qpc' = "idle"
            /\ qerrs' = qerrs + 1
            /\ UNCHANGED qi
       ELSE /\ qpc' = "push_id"
            /\ UNCHANGED << qi, qerrs >>
    /\ UNCHANGED << exceptBatch, qmap, link_id_col, hits_col, last_access_col,
                    entries_updated, qcycles >>

\* line 51
BatchPushId ==
    /\ qpc = "push_id"
    /\ qpc' = "push_hits"
    /\ link_id_col' = Append(link_id_col, qi)
    /\ UNCHANGED << exceptBatch, qmap, qi, hits_col, last_access_col, entries_updated,
                    qcycles, qerrs >>

\* line 52
BatchPushHits ==
    /\ qpc = "push_hits"
    /\ qpc' = "push_last"
    /\ hits_col' = Append(hits_col, qmap[qi].hits)
    /\ UNCHANGED << exceptBatch, qmap, qi, link_id_col, last_access_col, entries_updated,
                    qcycles, qerrs >>

\* lines 53-57: the third push; a full chunk goes to flush_to_db
BatchPushLast ==
    /\ qpc = "push_last"
    /\ last_access_col' = Append(last_access_col, from_unix_timestamp(qmap[qi].last_access_s).value)
    /\ entries_updated' = entries_updated + 1
    /\ IF Len(link_id_col) = CHUNK_SIZE
       THEN /\ qpc' = "flush"
            /\ UNCHANGED qi
       ELSE /\ qpc' = "iter"
            /\ qi' = qi + 1
    /\ UNCHANGED << exceptBatch, qmap, link_id_col, hits_col, qcycles, qerrs >>

\* lines 58-62: flush_to_db returns Ok and the columns are cleared
BatchFlush ==
    /\ qpc = "flush"
    /\ IF flush_call(link_id_col, hits_col, last_access_col) = "panic"
       THEN /\ qpc' = "panicked"
            /\ UNCHANGED << qi, link_id_col, hits_col, last_access_col >>
       ELSE /\ qpc' = "iter"
            /\ qi' = qi + 1
            /\ link_id_col' = << >>
            /\ hits_col' = << >>
            /\ last_access_col' = << >>
    /\ UNCHANGED << exceptBatch, qmap, entries_updated, qcycles, qerrs >>

\* lines 58 and 67: the upsert of flush_to_db fails and `?` returns the error
BatchFlushFail ==
    /\ \/ qpc = "flush"
       \/ qpc = "iter" /\ qi > Len(qmap)
    /\ flush_call(link_id_col, hits_col, last_access_col) = "upsert"
    /\ qpc' = "idle"
    /\ qerrs' = qerrs + 1
    /\ UNCHANGED << exceptBatch, qmap, qi, link_id_col, hits_col, last_access_col,
                    entries_updated, qcycles >>

\* lines 66-70: the iterator is exhausted and the rest is flushed
BatchRest ==
    /\ qpc = "iter"
    /\ qi > Len(qmap)
    /\ qpc' = IF flush_call(link_id_col, hits_col, last_access_col) = "panic"
              THEN "panicked" ELSE "idle"
    /\ UNCHANGED << exceptBatch, qmap, qi, link_id_col, hits_col, last_access_col,
                    entries_updated, qcycles, qerrs >>

BatchNext ==
    \/ \E m \in QMaps : BatchStart(m)
    \/ BatchEntry
    \/ BatchPushId
    \/ BatchPushHits
    \/ BatchPushLast
    \/ BatchFlush
    \/ BatchFlushFail
    \/ BatchRest

BatchSpec == Init /\ [][BatchNext]_vars

\* ------------------------------------------------ fetch_link and last_seen
\* services/links.rs:113-126: INSERT INTO links_main ... ON CONFLICT (alias) DO
\* NOTHING; the new row's last_seen is the day of the insert. The handler
\* (api/handlers/core.rs:165-186) does not touch the cache
create_link_with_alias ==
    /\ xday = 0
    /\ xrow = NoDay
    /\ xrow' = xday
    /\ UNCHANGED << exceptFetch, xday, xentry, xidle, xhit, xresult, xused, xflushed,
                    xhitToday, xdaily >>

\* what try_get_with_by_ref resolves to: the live entry, else the result of
\* query_url_by_alias (services/links.rs:138-160), Some(CachedLink) or None
Resolved ==
    IF xentry.cached THEN xentry
    ELSE [cached |-> TRUE, found |-> xrow # NoDay, last_seen |-> xrow]

\* api/handlers/core.rs:60-63
is_expired(last_seen, date) == last_seen < date - EXPIRY_DAYS

\* redirect, api/handlers/core.rs:69-84, of a link without password:
\* fetch_link (lines 40-67) and, when it returns Ok, record_hit
Redirect ==
    /\ xentry' = Resolved
    /\ xidle' = 0
    /\ IF ~Resolved.found
       THEN /\ xresult' = "not_found"
            /\ UNCHANGED << xhit, xused, xhitToday >>
       ELSE /\ xused' = Resolved.last_seen
            /\ IF is_expired(Resolved.last_seen, xday)
               THEN /\ xresult' = "gone"
                    /\ UNCHANGED << xhit, xhitToday >>
               ELSE /\ xresult' = "ok"
                    /\ xhit' = TRUE
                    /\ xhitToday' = TRUE
    /\ UNCHANGED << exceptFetch, xday, xrow, xflushed, xdaily >>

\* a flush commits the link's hit: link_metrics.rs:197-212 sets last_seen of
\* the row to CURRENT_DATE when it is older
FlushHit ==
    /\ xhit
    /\ xhit' = FALSE
    /\ xrow' = IF xrow # NoDay /\ xrow < xday THEN xday ELSE xrow
    /\ xflushed' = xday
    /\ UNCHANGED << exceptFetch, xday, xentry, xidle, xresult, xused, xhitToday, xdaily >>

\* midnight
NextDay ==
    /\ xday < MaxXDay
    /\ xday' = xday + 1
    /\ xidle' = IF xentry.cached THEN 1 ELSE 0
    /\ xdaily' = (xdaily /\ (xrow = NoDay \/ xhitToday))
    /\ xhitToday' = FALSE
    /\ UNCHANGED << exceptFetch, xrow, xentry, xhit, xresult, xused, xflushed >>

\* the entry has not been accessed for the idle period and is evicted
Evict ==
    /\ xentry.cached
    /\ xidle > 0
    /\ xentry' = NoEntry
    /\ xidle' = 0
    /\ UNCHANGED << exceptFetch, xday, xrow, xhit, xresult, xused, xflushed, xhitToday,
                    xdaily >>

FetchNext ==
    \/ create_link_with_alias
    \/ Redirect
    \/ FlushHit
    \/ NextDay
    \/ Evict

FetchSpec == Init /\ [][FetchNext]_vars

\* ------------------------------------------------ usage_metrics::Metrics
\* the instants of a week, in hours since 1970-01-01 00:00 UTC (a Thursday)
Instants == 0..(7 * 24 - 1)

\* date_time.date(), as days since 1970-01-01, and time.hour()
date_of(t) == t \div 24
hour_of(t) == t % 24

\* Weekday::number_from_monday: Monday is 1, Sunday is 7
number_from_monday(date) == ((date + 3) % 7) + 1

\* Weekday::number_days_from_monday: Monday is 0, Sunday is 6
number_days_from_monday(date) == (date + 3) % 7

\* usage_metrics.rs:29-48 with the weekday counted from 0
Metrics_log_from_zero(t, cat) ==
    /\ ulogs < MaxLogs
    /\ ulogs' = ulogs + 1
    /\ unow' = t
    /\ ucat' = cat
    /\ LET week_day == number_days_from_monday(date_of(t))
           hour == hour_of(t)
       IN  /\ ustatus' = "ok"
           /\ week_days' = [week_days EXCEPT ![week_day][hour][cat] = @ + 1]
    /\ UNCHANGED exceptUsage

\* Metrics::log, usage_metrics.rs:29-48, at instant t: indexing week_days or
\* hours out of bounds panics before the fetch_add
Metrics_log(t, cat) ==
    /\ ulogs < MaxLogs
    /\ ulogs' = ulogs + 1
    /\ unow' = t
    /\ ucat' = cat
    /\ LET week_day == number_from_monday(date_of(t))
           hour == hour_of(t)
       IN  IF week_day \in DOMAIN week_days /\ hour \in DOMAIN week_days[week_day]
           THEN /\ ustatus' = "ok"
                /\ week_days' = [week_days EXCEPT ![week_day][hour][cat] = @ + 1]
           ELSE /\ ustatus' = "panicked"
                /\ UNCHANGED week_days
    /\ UNCHANGED exceptUsage

UsageNext == \E t \in Instants : \E cat \in Categories : Metrics_log(t, cat)

UsageSpec == Init /\ [][UsageNext]_vars

\* ------------------------------------------------ app.rs: partitions of recent_hits
\* app.rs:295-300, 303-314, 318-331: the partition a statement of
\* create_daily_partition names: recent_hits_{name day} FROM start TO start + 1
RecentPartition(name_day, start) ==
    [tbl |-> "recent_hits",
     name |-> PartNameDate(name_day),
     from |-> ParseIsoDate(IsoDate(start)),
     to |-> ParseIsoDate(IsoDate(start + 1))]

\* a partition of recent_hits takes the rows of day d
RecentCovered(d) == \E q \in rparts : q.from <= d /\ d < q.to

\* lines 297-316: today is read and the first statement creates the partition
\* of today
RecentFirst ==
    /\ rpc = "idle"
    /\ LET r == CreateTableIfNotExists(rparts, RecentPartition(rtoday, rtoday))
       IN  /\ r.ok
           /\ rparts' = r.parts
    /\ r_today' = rtoday
    /\ rpc' = "second"
    /\ UNCHANGED << exceptRecent, rtoday, rokDay, rhit, rhitDay, rhitOk, rhits >>

\* a second statement that names the partition after tomorrow
RecentSecond_named_tomorrow ==
    /\ rpc = "second"
    /\ LET r == CreateTableIfNotExists(rparts, RecentPartition(r_today + 1, r_today + 1))
       IN  /\ r.ok
           /\ rparts' = r.parts
    /\ rpc' = "idle"
    /\ rokDay' = r_today
    /\ UNCHANGED << exceptRecent, rtoday, r_today, rhit, rhitDay, rhitOk, rhits >>

\* lines 318-336: the second statement, for the range of tomorrow under the
\* partition_name of line 299, and Ok(())
RecentSecond ==
    /\ rpc = "second"
    /\ LET r == CreateTableIfNotExists(rparts, RecentPartition(r_today, r_today + 1))
       IN  /\ r.ok
           /\ rparts' = r.parts
    /\ rpc' = "idle"
    /\ rokDay' = r_today
    /\ UNCHANGED << exceptRecent, rtoday, r_today, rhit, rhitDay, rhitOk, rhits >>

\* one of the two statements fails and `?` returns the error (lines 316, 333)
RecentFail ==
    /\ rpc = "second"
    /\ rpc' = "idle"
    /\ UNCHANGED << exceptRecent, rtoday, rparts, r_today, rokDay, rhit, rhitDay, rhitOk, rhits >>

\* midnight
RecentNextDay ==
    /\ rtoday < StartDay + MaxDayChanges
    /\ rtoday' = rtoday + 1
    /\ UNCHANGED << exceptRecent, rparts, rpc, r_today, rokDay, rhit, rhitDay, rhitOk, rhits >>

\* AppState::get_url, lines 162-173: INSERT INTO recent_hits (link_id) fails
\* when no partition takes a row of now
RecentHit ==
    /\ rhits < MaxHits
    /\ rhits' = rhits + 1
    /\ rhitDay' = rtoday
    /\ rhitOk' = rokDay
    /\ rhit' = IF RecentCovered(rtoday) THEN "ok" ELSE "hit_log_fail"
    /\ UNCHANGED << exceptRecent, rtoday, rparts, rpc, r_today, rokDay >>

RecentNext ==
    \/ RecentFirst
    \/ RecentSecond
    \/ RecentFail
    \/ RecentNextDay
    \/ RecentHit

RecentSpec == Init /\ [][RecentNext]_vars

\* ------------------------------------------------ claims
AllIdle == \A p \in Procs : pc[p] = "idle"

HitsIn(t, k) == IF k \in DOMAIN tbl[t] THEN tbl[t][k].hits ELSE 0

\* handler p holds the accumulator of (t, k) and has not returned yet
Writing(p, t, k) ==
    pc[p] \in {"fetch_add", "load_last", "cas_loop"} /\ map[p] = t /\ key[p] = k

RowsOf(k) == IF k.kind = "Link" THEN daily_metrics ELSE collection_metrics

RECURSIVE SumHits(_, _)
SumHits(rows, S) ==
    IF S = {} THEN 0
    ELSE LET x == CHOOSE y \in S : TRUE IN rows[x].hits + SumHits(rows, S \ {x})

\* durable hits of key k, over all days
DurableHits(k) == SumHits(RowsOf(k), {rk \in DOMAIN RowsOf(k) : rk[2] = k.id})

\* C1: with exactly one swap_map and every record_hit call finished, the hits
\* of k in the returned table plus those in the new active table equal the
\* number of record_hit(k) calls made.
C1_HitsSplitAcrossSwap ==
    (current = 1 /\ AllIdle) =>
        \A k \in EntityKey : HitsIn(0, k) + HitsIn(1, k) = calls[k]

\* C2: no step changes a table that swap_map has already returned.
C2_ReturnedTableImmutable ==
    [][\A t \in returned : tbl'[t] = tbl[t]]_vars

\* C3: after a flush cycle that ran with no record_hit in progress, all cycles
\* having succeeded, the durable hits of every key are at least the number of
\* record_hit calls made for it.
C3_NoHitLost ==
    (fpc = "idle" /\ cycles >= 1 /\ quiet /\ ~failed /\ AllIdle) =>
        \A k \in EntityKey : DurableHits(k) >= calls[k]

\* C4: N record_hit calls over K keys followed by one successful flush cycle
\* leave exactly K durable rows whose hits sum to N.
C4_RowsAndSumAfterOneFlush ==
    (fpc = "idle" /\ cycles = 1 /\ quiet /\ ~failed /\ AllIdle) =>
        /\ Cardinality(DOMAIN daily_metrics) + Cardinality(DOMAIN collection_metrics)
             = Cardinality({k \in EntityKey : calls[k] > 0})
        /\ SumHits(daily_metrics, DOMAIN daily_metrics)
             + SumHits(collection_metrics, DOMAIN collection_metrics) = CallsMade

\* C5: with no swap, after n finished record_hit(k) calls the active table
\* holds hits(k) = n.
C5_HitsEqualCalls ==
    (current = 0 /\ AllIdle) => \A k \in EntityKey : HitsIn(0, k) = calls[k]

\* C6: a swap installs a new empty active table and returns the previous one,
\* and a returned table is changed only by a record_hit call that started
\* before the swap that returned it: calls that start afterwards leave it alone.
C6_LaterHitsOnlyNewTable ==
    /\ [](\A p \in Procs :
            (pc[p] \in {"entry", "fetch_add", "load_last", "cas_loop"}
               /\ startEpoch[p] > map[p]) => map[p] \notin returned)
    /\ [][/\ current' # current =>
              /\ tbl'[current'] = EmptyTable
              /\ current' \notin returned'
              /\ returned' = returned \cup {current}
          /\ \A t \in returned :
               tbl'[t] # tbl[t] =>
                 \E p \in Procs : /\ pc[p] \in {"entry", "fetch_add", "cas_loop"}
                                  /\ map[p] = t
                                  /\ startEpoch[p] <= t]_vars

\* a call that started after a swap has created its accumulator in the new
\* active table while the returned table holds entries
C6_Witness ==
    \E p \in Procs : /\ pc[p] = "fetch_add"
                     /\ startEpoch[p] >= 1
                     /\ map[p] = current
                     /\ \E t \in returned : tbl[t] # EmptyTable

\* C7: once no call is in progress on an accumulator its last-access value is
\* the largest timestamp of the calls made on it, and the value never decreases.
C7_LastAccessIsMax ==
    /\ [](\A t \in Tables : \A k \in DOMAIN tbl[t] :
            (\A p \in Procs : ~Writing(p, t, k)) => tbl[t][k].last_access_s = maxTs[t][k])
    /\ [][\A t \in Tables : \A k \in DOMAIN tbl[t] :
            /\ k \in DOMAIN tbl'[t]
            /\ tbl'[t][k].last_access_s >= tbl[t][k].last_access_s]_vars

\* a call with an older timestamp reaches the loop after a newer one was stored
C7_Witness ==
    \E p \in Procs : pc[p] = "cas_loop" /\ now_s[p] < last_access_s[p]

\* C8: a record_hit that is about to take its shard lock never finds it held
\* by the flusher.
C8_RecordHitNeverWaitsForFlush ==
    \A p \in Procs : pc[p] = "entry" => ~ReadLocked(map[p], ShardOf(key[p]))

C10_NoInvocationAfterCancel ==
    [][\A j \in Jobs : (cancel_token /\ tasks[j] # "running") => tasks'[j] # "running"]_vars

\* ------------------------------------------------ claims on the Scheduler
\* C11: when shutdown returns with a job still running, that job is not
\* aborted: an invocation in progress ends only by its own completion (the
\* body returns Ok or Err), also after shutdown has returned.
C11_RunningJobNotAborted ==
    [][\A j \in Jobs :
         (sd = "returned" /\ tasks[j] = "running")
             => tasks'[j] \in {"running", "select", "err"}]_vars

\* C12: an invocation in progress when the cancellation signal is raised runs
\* to its own completion, and only then does the job exit: once the token is
\* cancelled, a job leaves its body only by the body returning.
C12_InvocationRunsToCompletion ==
    [][\A j \in Jobs :
         (cancel_token /\ active[j] > 0) => (active'[j] > 0 \/ tasks'[j] \in {"select", "err"})]_vars

\* C13 as stated: a job is not invoked at registration; its first invocation
\* starts only after one full interval has elapsed and later ones follow once
\* per interval, so a job has started at most as many invocations as
\* intervals have elapsed.
C13_FirstInvocationAfterInterval ==
    \A j \in Jobs : runs[j] <= periods[j]

\* C13 amended: a job is invoked right at registration (the first tick of its
\* interval is due at once) and then once per elapsed interval: of the
\* 1 + periods[j] ticks each is either consumed by one invocation or still due.
C13_FirstInvocationAtRegistration ==
    \A j \in Jobs : tasks[j] # "none" => runs[j] + due[j] = periods[j] + 1

\* a job inside its first invocation before any interval has elapsed
C13_Witness ==
    \E j \in Jobs : tasks[j] = "running" /\ runs[j] = 1 /\ periods[j] = 0

\* C14: at every moment at most one invocation of a given job's body is
\* active, however long an invocation takes and however many ticks fall due
\* meanwhile.
C14_OneInvocationPerJob ==
    \A j \in Jobs : active[j] <= 1

\* a job inside its body while further ticks of its interval are already due
C14_Witness ==
    \E j \in Jobs : active[j] = 1 /\ tasks[j] = "running" /\ due[j] >= 2

\* C15: shutdown(timeout_s) returns no later than timeout_s seconds after it
\* was called, for every timeout_s >= 0, also when a job never finishes.
C15_ShutdownReturnsInTime ==
    sd = "returned" => elapsed <= timeout_s

\* shutdown has returned at its deadline with a job still inside its body
C15_Witness ==
    /\ sd = "returned"
    /\ timeout_s > 0
    /\ elapsed = timeout_s
    /\ \E j \in left : tasks[j] = "running"

\* positions in the log of the records with a message of msgs under name j
Records(msgs, j) == {i \in 1..Len(log) : log[i].msg \in msgs /\ log[i].name = j}

\* the outcome shutdown logs for a joined job: "Task {name} finished
\* successfully" or "Task {name} error"
Outcome(j) == IF tasks[j] = "ok" THEN "finished" ELSE "error"

\* C16: shutdown(timeout_s) logs an outcome for every job, for every
\* timeout_s >= 0: for each job that exited before the deadline its success
\* or its error, exactly once, and a still-running outcome whenever a job is
\* still running when shutdown stops waiting.
C16_ShutdownLogsEveryOutcome ==
    sd = "returned" =>
        /\ \A j \in early :
              /\ Cardinality(Records({"finished", "error"}, j)) = 1
              /\ Cardinality(Records({Outcome(j)}, j)) = 1
        /\ left # {} => Records({"timed out"}, 0) # {}

\* C17: after a job's body returned an error the job is never invoked again,
\* and its error is reported under the job's name at shutdown: once shutdown
\* has returned, the log holds the shutdown record "Task {name} error" of
\* every job that had failed before the deadline.
C17_FailedJobReportedAtShutdown ==
    \A j \in Jobs :
        (sd = "returned" /\ tasks[j] = "err" /\ j \in early) => Records({"error"}, j) # {}

\* C18: a job that has failed, or whose invocation never returns, does not
\* stop any other job: while the cancellation is not raised, every other job
\* with a tick due is invoked.
C18_OtherJobsKeepRunning ==
    \A j \in Jobs : \A k \in Jobs \ {j} :
        (tasks[j] \in {"err", "running"} /\ tasks[k] = "select" /\ due[k] > 0 /\ ~cancel_token)
            ~> (tasks[k] = "running" \/ cancel_token)

\* one job has failed, another is invoked again after an interval elapsed
C18_Witness ==
    \E j \in Jobs : \E k \in Jobs \ {j} :
        tasks[j] = "err" /\ tasks[k] = "running" /\ runs[k] = 2 /\ ~cancel_token

\* C19: a failed cycle of a periodic job run under the Scheduler does not
\* prevent the job's later cycles: while the cancellation is not raised, a
\* job one of whose invocations has failed is still scheduled (waiting for its
\* next tick or inside a later invocation).
C19_FailedCycleJobStillScheduled ==
    \A j \in Jobs : (Records({"failed"}, j) # {} /\ ~cancel_token) => Alive(j)

\* ------------------------------------------------ claims on a failed flush
RECURSIVE SumStored(_, _)
SumStored(k, T) ==
    IF T = {} THEN 0
    ELSE LET t == CHOOSE x \in T : TRUE IN stored[t][k] + SumStored(k, T \ {t})

C21_FailureDoesNotEndTick ==
    (ppc = "idle" /\ presult = "db_error") => issued = AllStatements

\* C22: after a tick that returned Ok with server date D, both metric tables
\* have a partition covering exactly [D+i, D+i+1) for every offset i in 0..3;
\* the ranges of distinct partitions of a table do not overlap, a day maps to
\* one partition name and a name to one partition.
C22_PartitionsOfTheWindowExist ==
    (ppc = "idle" /\ presult = "ok") =>
        /\ \A s \in AllStatements :
              \E p \in parts :
                  p.tbl = s[2] /\ p.from = okDay + s[1] /\ p.to = okDay + s[1] + 1
        /\ \A p, q \in parts :
              (p # q /\ p.tbl = q.tbl) =>
                  ~Overlap(p, q) /\ p.name # q.name /\ p.from # q.from

\* two ticks have returned Ok and the window has moved over 2024-02-29 into
\* March
C22_Witness ==
    /\ ppc = "idle"
    /\ presult = "ok"
    /\ okDay = StartDay + 2
    /\ Cardinality(parts) = 2 * (Cardinality(Offsets) + 2)

\* C23: partition creation is idempotent: a second tick for the same server
\* date leaves exactly the partitions the first one left and does not end
\* with an error about an existing or overlapping partition.
C23_PartitionCreationIdempotent ==
    /\ (ppc = "idle" /\ presult = "ok" /\ okRuns >= 2) => parts = okParts
    /\ (ppc = "idle" /\ okDay = p_today) => presult # "conflict"

\* a second tick for the same server date has returned Ok
C23_Witness ==
    ppc = "idle" /\ presult = "ok" /\ okRuns = 2 /\ okDay = today

\* C24: provided the partition job returns Ok at least once per day and none
\* of its statements fails, no flush write made after the first Ok tick finds
\* the partition of the current day missing, across day changes, flush writes
\* and ticks in any order.
C24_FlushFindsItsPartition ==
    (~starved /\ ~pfailed) => ~missing

\* a flush write on the second day after the start found its partition before
\* that day's tick had run
C24_Witness ==
    /\ ~starved
    /\ ~pfailed
    /\ lastWrite = today
    /\ today = okDay + 1
    /\ today >= StartDay + 2

\* ------------------------------------------------ claims on the cache
\* C25: concurrent cache lookups of one alias without live entry share a single
\* backing lookup: at most one lookup of an alias runs at a time, every
\* waiting caller waits on that one lookup, the callers served by one lookup
\* hold the same result, and a result is never one of another alias; a caller
\* of another alias waits on a lookup of its own alias only.
C25_OneLookupForConcurrentCallers ==
    /\ \A a \in Aliases : inflight[a] <= 1
    /\ \A c \in Callers :
          cpc[c] = "waiting" =>
              /\ inflight[calias[c]] = 1
              /\ flight[c] = lookups[calias[c]]
              /\ cache[calias[c]] = Absent
    /\ \A c, d \in Callers :
          (cpc[c] = "done" /\ cpc[d] = "done" /\ calias[c] = calias[d] /\ flight[c] = flight[d])
              => cres[c] = cres[d]
    /\ \A c \in Callers :
          cpc[c] \in {"hit", "done"} => (cres[c] = CacheErr \/ cres[c].alias = calias[c])

\* two callers were served by the first lookup of an alias while a third
\* caller is waiting on the lookup of another alias
C25_Witness ==
    \E c, d, e \in Callers :
        /\ c # d
        /\ cpc[c] = "done" /\ cpc[d] = "done"
        /\ calias[c] = calias[d] /\ flight[c] = 1 /\ flight[d] = 1
        /\ lookups[calias[c]] = 1
        /\ cres[c] # Absent
        /\ cpc[e] = "waiting" /\ calias[e] # calias[c] /\ inflight[calias[e]] = 1

\* the cached value of a backing lookup that found no link for alias a
NotFound(a) == [alias |-> a, found |-> FALSE]

\* C26, the entry: the result of the last backing lookup of an alias, found or
\* not found, is the alias's cache entry until the entry is evicted.
C26_EntryIsLastResult ==
    \A a \in Aliases :
        (lastRes[a] \in {NotFound(a), [alias |-> a, found |-> TRUE]} /\ ~evicted[a])
            => cache[a] = lastRes[a]

\* C26, the later lookup: a cache lookup of an alias whose live entry is
\* not-found returns not-found and starts no backing lookup.
C26_HitRunsNoLookup ==
    \A c \in Callers : \A a \in Aliases :
        (Get(c, a) /\ cache[a] = NotFound(a))
            => /\ cpc'[c] = "hit"
               /\ cres'[c] = NotFound(a)
               /\ lookups' = lookups
               /\ inflight' = inflight

\* C26: a successful backing lookup is cached whether it found a link or not,
\* and a later lookup of an alias cached as not-found returns not-found
\* without running the backing lookup again.
C26_NotFoundIsCached == [] C26_EntryIsLastResult /\ [][C26_HitRunsNoLookup]_vars

\* a caller got not-found from the entry the one lookup of its alias left
C26_Witness ==
    \E c \in Callers :
        /\ cpc[c] = "hit"
        /\ cres[c] = NotFound(calias[c])
        /\ lookups[calias[c]] = 1
        /\ inflight[calias[c]] = 0
        /\ lastRes[calias[c]] = NotFound(calias[c])

\* the step in which a backing lookup of alias a ends with an error
ErrDelivered(a) == inflight'[a] < inflight[a] /\ lastRes'[a] = CacheErr

\* C27, the failing step: every caller waiting on the failed lookup gets the
\* error, the callers and entries of other aliases are as before, and the
\* alias has no entry.
C27_ErrorGoesToItsWaiters ==
    \A a \in Aliases :
        ErrDelivered(a) =>
            /\ \A c \in Coalesced(a) : cpc'[c] = "done" /\ cres'[c] = CacheErr
            /\ Coalesced(a) # {}
            /\ \A c \in Callers :
                  calias[c] # a => (cpc'[c] = cpc[c] /\ cres'[c] = cres[c])
            /\ \A b \in Aliases \ {a} : cache'[b] = cache[b] /\ inflight'[b] = inflight[b]
            /\ cache'[a] = Absent

\* C27, afterwards: while the last lookup of an alias is a failed one the alias
\* has no entry, so a cache lookup of it starts the backing lookup again.
C27_NothingCached ==
    \A a \in Aliases : (lastRes[a] = CacheErr /\ inflight[a] = 0) => cache[a] = Absent

C27_NextLookupRunsAgain ==
    \A c \in Callers : \A a \in Aliases :
        (Get(c, a) /\ lastRes[a] = CacheErr /\ inflight[a] = 0)
            => (lookups'[a] = lookups[a] + 1 /\ inflight'[a] = 1 /\ cpc'[c] = "waiting")

\* C27: a failed backing lookup gives the error to every caller coalesced on
\* it and to no caller of another alias, caches nothing for the alias, and the
\* next lookup of the alias runs the backing lookup again.
C27_FailedLookupNotCached ==
    /\ [][C27_ErrorGoesToItsWaiters]_vars
    /\ [] C27_NothingCached
    /\ [][C27_NextLookupRunsAgain]_vars

\* two callers got the error of the first lookup of an alias, a second lookup
\* of it is running, and another alias has its entry
C27_Witness ==
    \E c, d \in Callers :
        /\ c # d
        /\ cpc[c] = "done" /\ cpc[d] = "done"
        /\ calias[c] = calias[d] /\ flight[c] = 1 /\ flight[d] = 1
        /\ cres[c] = CacheErr /\ cres[d] = CacheErr
        /\ lookups[calias[c]] = 2 /\ inflight[calias[c]] = 1
        /\ \E b \in Aliases \ {calias[c]} : cache[b] # Absent

\* ------------------------------------------------ claims on the durable merge
\* C28: after the writes (D, id, h1, t1) and (D, id, h2, t2) the table has one
\* row of key (D, id), whose hits are those of the row before plus h1 + h2
\* (h1 + h2 when there was none) and whose last_access is the largest of the
\* row's before, t1 and t2 (max(t1, t2) when there was none); the table is the
\* same when the two writes are made in the opposite order, whatever their
\* keys; the rows of other keys are those of before.
C28_UpsertMergesOnKey ==
    ustep = 2 =>
        /\ urows = rrows
        /\ (writes[1].day = writes[2].day /\ writes[1].id = writes[2].id) =>
              LET k == << writes[1].day, writes[1].id >>
                  h == writes[1].hits + writes[2].hits
                  t == Max(writes[1].last_access, writes[2].last_access)
              IN  /\ DOMAIN urows = DOMAIN base \cup {k}
                  /\ \A x \in DOMAIN base \ {k} : urows[x] = base[x]
                  /\ IF k \in DOMAIN base
                     THEN /\ urows[k].hits = base[k].hits + h
                          /\ urows[k].last_access = Max(base[k].last_access, t)
                     ELSE /\ urows[k].hits = h
                          /\ urows[k].last_access = t

\* two writes of one key, the first with the later last_access, were made
\* into a table that had a row of another key and none of this key
C28_Witness ==
    /\ ustep = 2
    /\ writes[1].day = writes[2].day /\ writes[1].id = writes[2].id
    /\ writes[1].last_access > writes[2].last_access
    /\ << writes[1].day, writes[1].id >> \notin DOMAIN base
    /\ \E x \in DOMAIN base : x[1] # writes[1].day /\ x[2] = writes[1].id
    /\ urows[<< writes[1].day, writes[1].id >>].hits = writes[1].hits + writes[2].hits

\* ------------------------------------------------ claims on the link cleanup
\* the cutoff of the task's last statement: its CURRENT_DATE minus 30 days
C29_Cleaned ==
    lpc = "done" =>
        /\ lcutoff <= today - TTI_DAYS
        /\ \A id \in DOMAIN links_main : links_main[id] >= lcutoff
        /\ \A id \in DOMAIN lstart : lstart[id] >= lcutoff => id \in DOMAIN links_main
        /\ entries_deleted = Cardinality(DOMAIN lstart \ DOMAIN links_main)

\* C29: when link_cleanup_task has returned Ok, no link of links_main has a
\* last_seen before the cutoff (the server date of the task's last statement
\* minus 30 days) and every link that had a last_seen on or after the cutoff
\* when the task started is still there, whatever the number of expired links;
\* and a task in its loop returns.
C29_CleanupDeletesExpiredOnly == [] C29_Cleaned /\ (lpc = "loop" ~> lpc \in {"done", "failed"})

\* the task deleted two full batches and returned after a third, empty one,
\* leaving a link whose last_seen is the cutoff itself
C29_Witness ==
    /\ lpc = "done"
    /\ entries_deleted = 2 * BATCH_SIZE
    /\ \E id \in DOMAIN links_main : links_main[id] = lcutoff

\* ------------------------------------------------ claims on the unused-link cleanup
\* the links the running or finished execute has deleted
Deleted == DOMAIN mbefore \ DOMAIN mlinks

\* C30: execute calls cache.invalidate_all, once, exactly when its DELETE
\* removed at least one link: a run that returned Ok made the call iff it
\* deleted a link, a run whose DELETE failed (or that ended before it) deleted
\* nothing and made no call, and no other method of the cache is called.
C30_InvalidateIffDeleted ==
    /\ deleted_count = Cardinality(Deleted)
    /\ mpc = "done" =>
          cache_calls = (IF Deleted # {} THEN << "invalidate_all" >> ELSE << >>)
    /\ mpc = "invalidate_failed" => (Deleted # {} /\ cache_calls = << "invalidate_all" >>)
    /\ mpc = "invalidate" => (Deleted # {} /\ cache_calls = << >>)
    /\ mpc \in {"delete", "delete_failed", "time_failed", "panicked"} =>
          (Deleted = {} /\ cache_calls = << >>)

\* a run deleted one of two links, kept a link that was never accessed,
\* invalidated the cache and returned Ok
C30_Witness ==
    /\ mpc = "done"
    /\ Cardinality(Deleted) = 1
    /\ cache_calls = << "invalidate_all" >>
    /\ \E id \in DOMAIN mlinks : mlinks[id].last_accessed_at = NoTime

\* ------------------------------------------------ claims on shorten_url
\* C31: shorten_url does not return the error of a failed insert while it has
\* iterations left and the database would accept a later insert: it returns
\* Err only when the retry limit is reached.
C31_FailedInsertIsRetried ==
    (sresult = "err" /\ insert_errors = 0 /\ sdata # Aliases) => attempt = MAX_RETRIES

\* ------------------------------------------------ claims on the chunks of a cycle
\* the entries a step writes to durable storage
WrittenBy == {k \in EntityKey : stored'[fmap][k] # stored[fmap][k]}

\* the step in which a cycle returns Ok
CycleReturnsOk ==
    \/ fpc = "is_empty" /\ fpc' = "idle"
    \/ fpc = "rest_col" /\ fpc' = "idle" /\ (Len(col_cols.id) = 0 \/ stored' # stored)

\* C32: a durable write of a cycle carries between 1 and CHUNK_SIZE entries of
\* the drained table, all links written to daily_metrics alone or all
\* collections written to collection_metrics alone, none of them written
\* before; a step that writes no entry changes no durable table; and when the
\* cycle returns Ok every entry of the drained table has been written.
C32_EveryEntryInOneChunk ==
    [][/\ WrittenBy # {} =>
              /\ Cardinality(WrittenBy) <= CHUNK_SIZE
              /\ WrittenBy \subseteq DOMAIN tbl[fmap]
              /\ \A k \in WrittenBy : stored[fmap][k] = 0
              /\ \/ /\ \A k \in WrittenBy : k.kind = "Link"
                    /\ collection_metrics' = collection_metrics
                 \/ /\ \A k \in WrittenBy : k.kind = "Collection"
                    /\ daily_metrics' = daily_metrics
       /\ WrittenBy = {} =>
              (daily_metrics' = daily_metrics /\ collection_metrics' = collection_metrics)
       /\ \A t \in Tables \ {fmap} : stored'[t] = stored[t]
       /\ CycleReturnsOk => \A k \in DOMAIN tbl[fmap] : stored'[fmap][k] > 0]_vars

\* the committed rows when both statements of the running call have taken effect
TxBoth ==
    [metrics |-> [tbefore.metrics EXCEPT ![tkind] = UpsertFrom(@, tday, tcols, 1)],
     parents |-> [tbefore.parents EXCEPT ![tkind] = UpdateLastSeen(@, ChunkIds(tcols), tday)]]

\* C33: at every moment of a chunk's flush, and after it whichever step failed,
\* the committed rows are those from before the call or those with both the
\* metric upsert and the last_seen update applied
C33_ChunkIsAtomic ==
    tflushes > 0 => (tdb = tbefore \/ tdb = TxBoth)

\* the UPDATE failed after the upsert had run, and nothing of the upsert is visible
C33_Witness ==
    /\ tpc = "err"
    /\ tfailed = "update"
    /\ tdb = tbefore
    /\ UpsertFrom(tbefore.metrics[tkind], tday, tcols, 1) # tbefore.metrics[tkind]

\* C34: a committed flush sets last_seen to CURRENT_DATE for exactly the parents
\* of its chunk whose last_seen was older, moves no last_seen backward, leaves
\* every other parent as it was, and running the UPDATE again changes nothing
C34_LastSeenSetIfStale ==
    (tpc = "ok" /\ Len(tcols.id) > 0) =>
        /\ DOMAIN tdb.parents[tkind] = DOMAIN tbefore.parents[tkind]
        /\ \A p \in DOMAIN tbefore.parents[tkind] :
              /\ tdb.parents[tkind][p] =
                    IF p \in ChunkIds(tcols) /\ tbefore.parents[tkind][p] < tday
                    THEN tday ELSE tbefore.parents[tkind][p]
              /\ tdb.parents[tkind][p] >= tbefore.parents[tkind][p]
        /\ \A kd \in Kinds \ {tkind} : tdb.parents[kd] = tbefore.parents[kd]
        /\ UpdateLastSeen(tdb.parents[tkind], ChunkIds(tcols), tday) = tdb.parents[tkind]

\* a committed flush met a stale parent and a parent dated after today in its
\* chunk, or a stale parent outside of it
C34_Witness ==
    /\ tpc = "ok"
    /\ \E p, q \in DOMAIN tbefore.parents[tkind] :
          /\ p \in ChunkIds(tcols) /\ tbefore.parents[tkind][p] < tday
          /\ tdb.parents[tkind][p] = tday
          /\ \/ q \in ChunkIds(tcols) /\ tbefore.parents[tkind][q] > tday
             \/ q \notin ChunkIds(tcols) /\ tbefore.parents[tkind][q] < tday

\* process_batch is about to call flush_to_db
AtFlushCall == qpc = "flush" \/ (qpc = "iter" /\ qi > Len(qmap))

\* C35: whenever process_batch calls flush_to_db the three columns have the same
\* length, and no call ends in the panic of the length assertion, in any cycle
C35_ColumnsSameLength ==
    /\ qpc # "panicked"
    /\ AtFlushCall => (Len(link_id_col) = Len(hits_col) /\ Len(hits_col) = Len(last_access_col))

\* the cycle after one that ended early with Err calls flush_to_db with a
\* chunk that is not empty
C35_Witness ==
    /\ qcycles = 2
    /\ qerrs = 1
    /\ AtFlushCall
    /\ Len(link_id_col) > 0

\* C36: a link that had a successful redirect on every day that has ended, and
\* whose hits a flush recorded yesterday or today, is not reported as expired
\* by fetch_link
C36_DailyLinkNeverExpired ==
    ~(xresult = "gone" /\ xdaily /\ xrow # NoDay /\ xflushed >= xday - 1)

\* C36, second half: the expiry decision uses a last_seen at least as recent
\* as the last flush that recorded a hit for the link
C36_DecisionUsesFlushedDay ==
    [][(Redirect /\ Resolved.found) => xused' >= xflushed]_vars

\* C37: once the link with the alias exists, no lookup through the cache
\* resolves to not-found
C37_CreatedAliasResolves ==
    [][(Redirect /\ xrow # NoDay) => xresult' # "not_found"]_vars

\* C38: the last access stored in a durable row (day, id) falls within that
\* day: every hit is counted in the row of the day record_hit was called on
C38_HitCountedOnItsDay ==
    /\ \A rk \in DOMAIN daily_metrics : DayOf(daily_metrics[rk].last_access) = rk[1]
    /\ \A rk \in DOMAIN collection_metrics : DayOf(collection_metrics[rk].last_access) = rk[1]

\* the counters a step has changed
Incremented ==
    {dhc \in (0..6) \X (0..23) \X Categories :
        week_days'[dhc[1]][dhc[2]][dhc[3]] # week_days[dhc[1]][dhc[2]][dhc[3]]}

\* C39: every call of Metrics::log, on any weekday and at any hour, indexes the
\* counters within bounds and increments exactly one of them by 1, a counter of
\* the call's hour and category
C39_LogCountsOnce ==
    [][ulogs' # ulogs =>
         /\ ustatus' = "ok"
         /\ Cardinality(Incremented) = 1
         /\ \E d \in 0..6 :
               week_days'[d][hour_of(unow')][ucat'] = week_days[d][hour_of(unow')][ucat'] + 1]_vars

\* C40: after create_daily_partition returned Ok on day D, recent_hits has a
\* partition for D and one for D + 1, and no insert of a hit on D or D + 1 fails
\* for want of a partition
C40_TomorrowIsProvisioned ==
    /\ rokDay # NoDay => (RecentCovered(rokDay) /\ RecentCovered(rokDay + 1))
    /\ (rhit = "hit_log_fail" /\ rhitOk # NoDay) => rhitDay > rhitOk + 1

\* C40, the hit alone: an insert on the day after a successful
\* create_daily_partition finds its partition
C40_HitAfterMidnight ==
    ~(rhit = "hit_log_fail" /\ rhitOk # NoDay /\ rhitDay = rhitOk + 1)
====
